---- MODULE Spec2Model ----
(***************************************************************************)
(* Object model of the HAL: the reference-counted object base              *)
(* (oop_referenced_object.h) and the base driver open/close protocol, in   *)
(* its two builds: the inline drvOpen/drvClose of hal_base_driver.h and    *)
(* the out-of-line drvOpen/drvClose of hal_base_driver.c.                  *)
(*                                                                         *)
(* osalDbgAssert(c, msg) is a fatal assertion: when c is false the system  *)
(* halts with msg and no later operation runs.                             *)
(***************************************************************************)
EXTENDS Integers, Sequences, FiniteSets, TLC

(***************************************************************************)
(* Bounds of the model.                                                    *)
(***************************************************************************)
\* How far below the largest value of "unsigned int" the counters of an
\* object start where a long history of calls is examined.
NearMax == 2

\* Number of calls issued in one behaviour.
MaxOps == 6
\* Number of threads of the concurrent specification.
NThreads == 2
\* Calls (roAddRef, roRelease, drvOpen, drvClose) the threads issue in all.
MaxThreadCalls == 6
\* Rounds of its open/close program each client thread runs.
MaxRounds == 2
\* Capacity in bytes of each queue of the channel.
QueueSize == 2
\* Largest number of bytes a read or write asks for.
MaxLen == 2
\* Largest finite wait budget, in ticks.
MaxTicks == 1
\* Channel and stream calls the threads issue in all.
MaxChnCalls == 2
\* Number of event listeners.
NListeners == 2

(***************************************************************************)
(* "unsigned int" (oop_object_references_t, opencnt) is 32 bits wide.  The *)
(* integers of the model checker are 32-bit two's complement, so a counter *)
(* is held as the integer that has the same 32 bits: 0 .. 2147483647 stand *)
(* for themselves, and -2147483648 .. -1 stand for 2147483648 ..           *)
(* 4294967295.  Sums and differences of counters then agree with the       *)
(* arithmetic modulo 2^32 of the program.                                  *)
(***************************************************************************)
\* The largest integer of the model checker, 2^31 - 1.
INT_MAX == 2147483647

\* UINT_MAX = 4294967295 = (unsigned int)-1
UIntMax == -1

\* v + 1 modulo 2^32
UIntInc(v) == IF v = INT_MAX THEN (-INT_MAX) - 1 ELSE v + 1

\* v - 1 modulo 2^32
UIntDec(v) == IF v = (-INT_MAX) - 1 THEN INT_MAX ELSE v - 1

\* a < b as unsigned values
UIntLess(a, b) == IF (a < 0) = (b < 0) THEN a < b ELSE b < 0

(***************************************************************************)
(* Program constants.                                                      *)
(***************************************************************************)
HAL_DRV_STATE_UNINIT == 0

HAL_DRV_STATE_STOPPED == 1

HAL_DRV_STATE_READY == 2

HAL_DRV_STATE_ACTIVE == 3

HAL_DRV_STATE_ERROR == 4

\* hal_base_driver.c writes HAL_DRV_STATE_STOP where the driver stops; no
\* header defines the name, it is taken to be the stopped state of the
\* driver's state machine.
HAL_DRV_STATE_STOP == HAL_DRV_STATE_STOPPED

DriverStates ==
  { HAL_DRV_STATE_UNINIT, HAL_DRV_STATE_STOPPED, HAL_DRV_STATE_READY,
    HAL_DRV_STATE_ACTIVE, HAL_DRV_STATE_ERROR }

HAL_RET_SUCCESS == "HAL_RET_SUCCESS"

\* Failure codes a concrete start hook may return.
StartFailures == { "HAL_RET_HW_FAILURE", "HAL_RET_CONFIG_ERROR" }

StartResults == { HAL_RET_SUCCESS } \cup StartFailures

\* The two builds of drvOpen/drvClose.
Impls == { "inline", "outofline" }

\* Status codes a concrete configure hook may return.
ConfigResults == { HAL_RET_SUCCESS, "HAL_RET_CONFIG_ERROR" }

\* The classes built on referenced_object_c: the plain object, the
\* synchronized object, the reference-counted base driver and the
\* communication driver derived from it.
RefClasses ==
  { "referenced_object", "synchronized_object", "base_driver", "com_driver" }

\* The empty owner.
NULL == "NULL"
\* Values of the owner back-reference: none, or an upper-layer object.
Owners == { NULL, "app" }

\* No assertion has failed.
Running == "running"

\* The threads of the concurrent specification.
Threads == 1 .. NThreads
\* Owner of a mutex nobody holds.
NoThread == 0
\* The two objects that carry a mutex: the base driver (objp->mutex of
\* base_driver_c) and a synchronized object (objp->mutex of
\* synchronized_object_c).
MutexInstances == { "drv", "so" }
\* What the client threads do: reference counting, drvOpen/drvClose with
\* no locking, drvOpen/drvClose bracketed by drvLock/drvUnlock, or locking
\* and unlocking only.
Modes == { "refs", "open", "bracketed", "locks" }

VARIABLES
  impl,          \* build of drvOpen/drvClose linked into the program
  vmt,           \* class of the reference-counted object (its method table)
  references,    \* referenced_object_c.references
  opencnt,       \* base_driver_c.opencnt
  state,         \* base_driver_c.state
  owner,         \* base_driver_c.owner
  halted,        \* Running, or the message of the assertion that failed
  last,          \* the last call: operation, fields before it, result, hooks
  nops,          \* calls issued so far
  disposeCalls,  \* invocations of __referenced_object_dispose_impl
  addRefs,       \* roAddRef calls that returned
  releases,      \* roRelease calls that returned
  roMisuse,      \* a referenced-object call was issued with no reference
                 \* held (count already zero), or dispose was called directly
  startCalls,    \* invocations of the start hook
  startFails,    \* start invocations that returned a failure code
  stopCalls,     \* invocations of the stop hook
  opens,         \* drvOpen calls that returned HAL_RET_SUCCESS
  closes,        \* drvClose calls that returned
  trans01,       \* 0 -> 1 transitions of opencnt
  trans10,       \* 1 -> 0 transitions of opencnt
  runs,          \* times the outstanding opens went 0 -> 1
  runsDone,      \* times the outstanding opens went back 1 -> 0
  openFailed,    \* the most recent drvOpen returned a failure code
  mode,          \* "sequential", or what the client threads do (Modes)
  pc,            \* per thread: "idle" or its position inside a call
  tmp,           \* per thread: the counter value its call has read
  held,          \* per thread: references (mode "refs") or successful
                 \* opens (driver modes) the thread holds
  locks,         \* per thread: the mutexes it is between lock and unlock of
  mutex,         \* per instance: the owner stored in objp->mutex
  hwStarted,     \* a start hook succeeded and no stop hook ran since
  early,         \* a drvOpen returned HAL_RET_SUCCESS while another
                 \* thread was still inside the start hook
  startsSinceStop,   \* start invocations since the last stop (up to 2)
  okStartsSinceStop, \* successful starts since the last stop (up to 2)
  iq,            \* channel: the bytes in the input queue
  oq,            \* channel: number of bytes in the output queue
  call,          \* per thread: its current or last channel call
  registered,    \* the listeners registered on the channel's event source
  pending,       \* per listener: its pending flags
  clast,         \* the last event on the channel outside the calls
  ownerSet,      \* argument of the most recent drvSetOwnerX, NULL if none
  round,         \* per thread: rounds of its open/close program completed
  builds,        \* per build of drvOpen/drvClose: a driver of that build,
                 \* all of them given the same calls and start results
  scenario       \* k in 1..5: the driver calls so far are exactly the first
                 \* k of drvOpen, drvOpen, drvClose, drvClose, drvClose with
                 \* a succeeding start hook; 0: none yet; -1: anything else

vars ==
  << impl, vmt, references, opencnt, state, owner, halted, last, nops, disposeCalls,
     addRefs, releases, roMisuse, startCalls, startFails, stopCalls, opens,
     closes, trans01, trans10, runs, runsDone, openFailed, scenario, ownerSet,
     builds, round, iq, oq, call, registered, pending, clast, mode, pc, tmp, held, locks, mutex, hwStarted, early, startsSinceStop,
     okStartsSinceStop >>

chnVars == << iq, oq, call, registered, pending, clast >>

thrVars ==
  << mode, pc, tmp, held, locks, mutex, hwStarted, early, startsSinceStop,
     okStartsSinceStop >>

refVars == << vmt, references, disposeCalls, addRefs, releases, roMisuse >>

drvVars ==
  << opencnt, state, owner, startCalls, startFails, stopCalls, opens, closes,
     trans01, trans10, runs, runsDone, openFailed, scenario, ownerSet >>

\* Opens that returned success and are not yet matched by a close.
Outstanding == opens - closes

\* The fields of the objects, as a call finds them.
Fields == [ references |-> references, opencnt |-> opencnt, state |-> state ]

Count(seq, h) == Cardinality({ i \in DOMAIN seq : seq[i] = h })

(***************************************************************************)
(* oop_referenced_object.h                                                 *)
(***************************************************************************)
\* osalDbgAssert(c, msg): Running when the condition holds, else the system
\* halts with msg.
osalDbgAssert(c, msg) == IF c THEN Running ELSE msg

\* objp->references = (oop_object_references_t)1
referenced_object_objinit_impl == 1

\* osalDbgAssert(references == 0, "not zero"); __base_object_dispose_impl()
referenced_object_dispose_impl(refs) ==
  [ references |-> refs,
    ret        |-> "void",
    hooks      |-> << "dispose" >>,
    halt       |-> osalDbgAssert(refs = 0, "not zero") ]

\* __synchronized_object_dispose_impl: __referenced_object_dispose_impl(ip)
synchronized_object_dispose_impl(refs) == referenced_object_dispose_impl(refs)

\* __base_object_dispose_impl reached with no check of the reference count.
ref_base_driver_dispose_Unchecked(refs) ==
  [ references |-> refs, ret |-> "void", hooks |-> << "dispose" >>,
    halt |-> Running ]

\* __base_driver_dispose_impl of the reference-counted base driver:
\* __referenced_object_dispose_impl(objp)
ref_base_driver_dispose_impl(refs) == referenced_object_dispose_impl(refs)

\* __com_driver_dispose_impl: __base_driver_dispose_impl(objp)
com_driver_dispose_impl(refs) == ref_base_driver_dispose_impl(refs)

\* The dispose implementation of each class.
dispose(class, refs) ==
  IF class = "synchronized_object" THEN synchronized_object_dispose_impl(refs)
  ELSE IF class = "base_driver" THEN ref_base_driver_dispose_impl(refs)
  ELSE IF class = "com_driver" THEN com_driver_dispose_impl(refs)
  ELSE referenced_object_dispose_impl(refs)

\* __synchronized_object_objinit_impl: __referenced_object_objinit_impl
synchronized_object_objinit_impl == referenced_object_objinit_impl

\* __base_driver_objinit_impl of the reference-counted base driver:
\* __referenced_object_objinit_impl(objp, vmt)
ref_base_driver_objinit_impl == referenced_object_objinit_impl

\* _com_driver_objinit_impl: __base_driver_objinit_impl(objp, vmt)
com_driver_objinit_impl == ref_base_driver_objinit_impl

\* The reference count each class is constructed with.
objinit(class) ==
  IF class = "synchronized_object" THEN synchronized_object_objinit_impl
  ELSE IF class = "base_driver" THEN ref_base_driver_objinit_impl
  ELSE IF class = "com_driver" THEN com_driver_objinit_impl
  ELSE referenced_object_objinit_impl

referenced_object_addref_NoIncrement(refs) ==
  [ references |-> refs, ret |-> "ip", hooks |-> << >>,
    halt |-> osalDbgAssert(refs # 0, "overflow") ]

referenced_object_addref_NoOverflowCheck(refs) ==
  [ references |-> UIntInc(refs), ret |-> "ip", hooks |-> << >>,
    halt |-> Running ]

\* objp->references++; osalDbgAssert(references != 0, "overflow"); return ip
referenced_object_addref_impl(refs) ==
  LET r == UIntInc(refs)
  IN  [ references |-> r,
        ret        |-> "ip",
        hooks      |-> << >>,
        halt       |-> osalDbgAssert(r # 0, "overflow") ]

\* return objp->references
referenced_object_getref_impl(refs) == refs

referenced_object_release_DisposeEarly(refs) ==
  IF ~UIntLess(0, refs)
    THEN [ references |-> refs, ret |-> "none", hooks |-> << >>,
           halt |-> "zero references" ]
    ELSE LET r == UIntDec(refs)
         IN  IF r \in { 0, 1 }
               THEN [ references |-> r, ret |-> r, hooks |-> << "dispose" >>,
                      halt |-> IF r = 0 THEN Running ELSE "not zero" ]
               ELSE [ references |-> r, ret |-> r, hooks |-> << >>,
                      halt |-> Running ]

referenced_object_release_StaleReturn(refs) ==
  IF ~UIntLess(0, refs)
    THEN [ references |-> refs, ret |-> "none", hooks |-> << >>,
           halt |-> "zero references" ]
    ELSE LET r == UIntDec(refs)
         IN  [ references |-> r, ret |-> refs,
               hooks |-> IF r = 0 THEN << "dispose" >> ELSE << >>,
               halt |-> Running ]

\* osalDbgAssert(references > 0, "zero references");
\* if (--objp->references == 0U) __referenced_object_dispose_impl(ip);
\* return objp->references
referenced_object_release_impl(refs) ==
  IF osalDbgAssert(UIntLess(0, refs), "zero references") # Running
    THEN [ references |-> refs, ret |-> "none", hooks |-> << >>,
           halt |-> osalDbgAssert(UIntLess(0, refs), "zero references") ]
    ELSE LET r == UIntDec(refs)
         IN  IF r = 0
               THEN LET d == referenced_object_dispose_impl(r)
                    IN  [ references |-> d.references,
                          ret        |-> IF d.halt = Running
                                           THEN d.references ELSE "none",
                          hooks      |-> d.hooks,
                          halt       |-> d.halt ]
               ELSE [ references |-> r, ret |-> r, hooks |-> << >>,
                      halt |-> Running ]

\* roAddRef: objp->vmt->addref(ip)
roAddRef(refs) == referenced_object_addref_impl(refs)

\* roRelease: objp->vmt->release(ip)
roRelease(refs) == referenced_object_release_impl(refs)

(***************************************************************************)
(* hal_base_driver.h: construction and the inline drvOpen/drvClose         *)
(***************************************************************************)
\* __base_driver_objinit_impl: objp->opencnt = 0U; objp->owner = NULL (the
\* state field is not written by the constructor, so it holds whatever the
\* storage held).
base_driver_objinit_impl(st) ==
  [ opencnt |-> 0, state |-> st, owner |-> NULL ]

base_driver_dispose_AutoClose(cnt, st) ==
  [ opencnt |-> 0, state |-> st, ret |-> "void",
    hooks |-> IF cnt # 0 THEN << "stop", "base_dispose" >>
                         ELSE << "base_dispose" >>,
    halt |-> Running ]

\* __base_driver_dispose_impl: osalDbgAssert(objp->opencnt == 0U,
\* "still opened"); __base_object_dispose_impl(objp);
base_driver_dispose_impl(cnt, st) ==
  IF osalDbgAssert(cnt = 0, "still opened") # Running
    THEN [ opencnt |-> cnt, state |-> st, ret |-> "none", hooks |-> << >>,
           halt |-> osalDbgAssert(cnt = 0, "still opened") ]
    ELSE [ opencnt |-> cnt, state |-> st, ret |-> "void",
           hooks |-> << "base_dispose" >>, halt |-> Running ]

drvConfigureX_NoAssert(cnt, st, configResult) ==
  [ opencnt |-> cnt, state |-> st, ret |-> configResult,
    hooks |-> << "configure" >>, halt |-> Running ]

\* osalDbgAssert(objp->opencnt > 0U, "not opened");
\* return objp->vmt->configure(ip, config);
drvConfigureX(cnt, st, configResult) ==
  IF osalDbgAssert(UIntLess(0, cnt), "not opened") # Running
    THEN [ opencnt |-> cnt, state |-> st, ret |-> "none", hooks |-> << >>,
           halt |-> osalDbgAssert(UIntLess(0, cnt), "not opened") ]
    ELSE [ opencnt |-> cnt, state |-> st, ret |-> configResult,
           hooks |-> << "configure" >>, halt |-> Running ]

\* if (objp->opencnt++ == 0U) return objp->vmt->start(ip);
\* return HAL_RET_SUCCESS;
drvOpenInline(cnt, st, startResult) ==
  [ opencnt |-> UIntInc(cnt),
    state   |-> st,
    ret     |-> IF cnt = 0 THEN startResult ELSE HAL_RET_SUCCESS,
    hooks   |-> IF cnt = 0 THEN << "start" >> ELSE << >>,
    halt    |-> Running ]

drvCloseInline_NoAssert(cnt, st) ==
  LET c == UIntDec(cnt)
  IN  [ opencnt |-> c, state |-> st, ret |-> "void",
        hooks |-> IF c = 0 THEN << "stop" >> ELSE << >>, halt |-> Running ]

\* osalDbgAssert(objp->opencnt > 0U, "not opened");
\* if (--objp->opencnt == 0U) objp->vmt->stop(ip);
drvCloseInline(cnt, st) ==
  IF osalDbgAssert(UIntLess(0, cnt), "not opened") # Running
    THEN [ opencnt |-> cnt, state |-> st, ret |-> "none", hooks |-> << >>,
           halt |-> osalDbgAssert(UIntLess(0, cnt), "not opened") ]
    ELSE LET c == UIntDec(cnt)
         IN  [ opencnt |-> c, state |-> st, ret |-> "void",
               hooks |-> IF c = 0 THEN << "stop" >> ELSE << >>,
               halt |-> Running ]

(***************************************************************************)
(* hal_base_driver.c: the out-of-line drvOpen/drvClose                     *)
(***************************************************************************)
\* if (opencnt == 0U) { msg = start(); if (msg == HAL_RET_SUCCESS)
\* { opencnt++; state = READY; } else { state = STOP; } }
\* else { msg = HAL_RET_SUCCESS; } return msg;
drvOpenOutOfLine(cnt, st, startResult) ==
  IF cnt = 0
    THEN IF startResult = HAL_RET_SUCCESS
           THEN [ opencnt |-> UIntInc(cnt),
                  state |-> HAL_DRV_STATE_READY, ret |-> startResult,
                  hooks |-> << "start" >>, halt |-> Running ]
           ELSE [ opencnt |-> cnt, state |-> HAL_DRV_STATE_STOP,
                  ret |-> startResult, hooks |-> << "start" >>,
                  halt |-> Running ]
    ELSE [ opencnt |-> cnt, state |-> st, ret |-> HAL_RET_SUCCESS,
           hooks |-> << >>, halt |-> Running ]

\* osalDbgAssert(objp->opencnt > 0U, "not opened");
\* if (--objp->opencnt == 0U) { state = STOP; objp->vmt->stop(ip); }
drvCloseOutOfLine(cnt, st) ==
  IF osalDbgAssert(UIntLess(0, cnt), "not opened") # Running
    THEN [ opencnt |-> cnt, state |-> st, ret |-> "none", hooks |-> << >>,
           halt |-> osalDbgAssert(UIntLess(0, cnt), "not opened") ]
    ELSE LET c == UIntDec(cnt)
         IN  IF c = 0
               THEN [ opencnt |-> c, state |-> HAL_DRV_STATE_STOP,
                      ret |-> "void", hooks |-> << "stop" >>,
                      halt |-> Running ]
               ELSE [ opencnt |-> c, state |-> st, ret |-> "void",
                      hooks |-> << >>, halt |-> Running ]

\* drvOpen as linked by the build.
drvOpen(build, cnt, st, startResult) ==
  IF build = "inline" THEN drvOpenInline(cnt, st, startResult)
                      ELSE drvOpenOutOfLine(cnt, st, startResult)

\* drvClose as linked by the build.
drvClose(build, cnt, st) ==
  IF build = "inline" THEN drvCloseInline(cnt, st)
                      ELSE drvCloseOutOfLine(cnt, st)

(***************************************************************************)
(* The state machine.                                                      *)
(***************************************************************************)
Bump(b) == IF b THEN 1 ELSE 0

(***************************************************************************)
(* Accessors of the base driver.  They take the object as the record of    *)
(* its fields and yield the value returned or the object after the call.   *)
(***************************************************************************)
Object == [ vmt |-> vmt, state |-> state, owner |-> owner ]

\* drvGetStateX: return objp->state;
drvGetStateX(obj) == obj.state

\* A drvSetStateX that refuses to put the driver back to UNINIT.
drvSetStateX_Validated(obj, st) ==
  IF st = HAL_DRV_STATE_UNINIT THEN obj ELSE [ obj EXCEPT !.state = st ]

\* drvSetStateX: ((base_driver_c *)ip)->state = state;
drvSetStateX(obj, st) == [ obj EXCEPT !.state = st ]

\* drvGetOwnerX: return objp->owner;
drvGetOwnerX(obj) == obj.owner

\* A drvSetOwnerX that stores nothing.
drvSetOwnerX_NoStore(obj, o) == obj

\* A drvSetOwnerX that writes the first word of the object as well.
drvSetOwnerX_ClobbersVmt(obj, o) == [ obj EXCEPT !.owner = o, !.vmt = o ]

\* drvSetOwnerX: objp->owner = owner;
drvSetOwnerX(obj, o) == [ obj EXCEPT !.owner = o ]

\* A get-interface method that exposes the object itself.
base_driver_get_interface_Self(obj) == "ip"

\* __base_driver_get_interface_impl: (void)ip; return NULL;
base_driver_get_interface_impl(obj) == NULL

\* drvGetInterfaceX: return objp->vmt->getif(objp);
drvGetInterfaceX(obj) == base_driver_get_interface_impl(obj)

\* A drvClose that returns the count without releasing a reference.
ref_drvClose_NoRelease(refs) ==
  [ references |-> refs, ret |-> refs, hooks |-> << >>, halt |-> Running ]

\* drvClose of the reference-counted driver: return roRelease(objp);
ref_drvClose(refs) == roRelease(refs)

CanCall == halted = Running /\ nops < MaxOps

(***************************************************************************)
(* The mutex of an object.  osalMutexObjectInit, osalMutexLock and         *)
(* osalMutexUnlock (chMtxObjectInit, chMtxLock, chMtxUnlock) belong to the *)
(* kernel: a mutex records its owner, a lock on an owned mutex waits.      *)
(* A lock yields whether the caller acquired the mutex and the new owner.  *)
(***************************************************************************)
osalMutexObjectInit == NoThread

osalMutexLock(mtx, t) ==
  IF mtx = NoThread THEN [ acquired |-> TRUE, mtx |-> t ]
                    ELSE [ acquired |-> FALSE, mtx |-> mtx ]

osalMutexUnlock(mtx, t) == NoThread

chMtxObjectInit == osalMutexObjectInit

chMtxLock(mtx, t) == osalMutexLock(mtx, t)

chMtxUnlock(mtx, t) == osalMutexUnlock(mtx, t)

\* drvLock: osalMutexLock(&objp->mutex).
drvLock(mtx, t) == osalMutexLock(mtx, t)

\* drvUnlock: osalMutexUnlock(&objp->mutex).
drvUnlock(mtx, t) == osalMutexUnlock(mtx, t)

\* An soLock that returns without waiting for the owner.
soLock_NoWait(mtx, t) == [ acquired |-> TRUE, mtx |-> t ]

\* soLock: chMtxLock(&objp->mutex).
soLock(mtx, t) == chMtxLock(mtx, t)

\* soUnlock: chMtxUnlock(&objp->mutex).
soUnlock(mtx, t) == chMtxUnlock(mtx, t)

\* Lock and unlock of instance i, each on the mutex of its own object.
lock(i, mtx, t) == IF i = "drv" THEN drvLock(mtx, t) ELSE soLock(mtx, t)

unlock(i, mtx, t) == IF i = "drv" THEN drvUnlock(mtx, t) ELSE soUnlock(mtx, t)

\* The position of a thread that called the lock of instance i and has
\* not returned from it.
LockPc(i) == IF i = "drv" THEN "lock_drv" ELSE "lock_so"

(***************************************************************************)
(* Channels and streams.  hal_channels.h and oop_sequential_stream.h only  *)
(* dispatch each operation to a method of the object's table; the methods  *)
(* modelled here are those of a buffered channel: an input queue filled by *)
(* the receiver interrupt, an output queue drained by the transmitter      *)
(* interrupt, callers suspended while their queue is not ready.            *)
(***************************************************************************)
Listeners == 1 .. NListeners

Min(a, b) == IF a <= b THEN a ELSE b

\* Stream return codes (MSG_OK, MSG_TIMEOUT, MSG_RESET of the kernel).
STM_OK == 0
STM_TIMEOUT == -1
STM_RESET == -2

\* The two reserved wait budgets: ticks are 1 .. MaxTicks, the unbounded
\* budget is the largest value of the interval type.
TIME_IMMEDIATE == 0
TIME_INFINITE == MaxTicks + 1
Budgets == TIME_IMMEDIATE .. TIME_INFINITE

\* Condition flags (bits of an eventflags_t mask); a mask is the set of its
\* bits, so that OR of masks is union.
CHN_INPUT_AVAILABLE == 4
CHN_OUTPUT_EMPTY == 8
FlagBits == { CHN_INPUT_AVAILABLE, CHN_OUTPUT_EMPTY }
FlagMasks == (SUBSET FlagBits) \ { { } }

\* Values of a byte (uint8_t) the receiver delivers.
Bytes == { 0, 255 }

\* The clients modelled: callers of the input operations with the receiver,
\* callers of the output operations with the transmitter, or listeners of
\* the event source with the interrupt handlers and the holders of drvLock.
ChannelModes == { "input", "output", "events" }

TimedOps ==
  { "chnGetTimeout", "chnPutTimeout", "chnReadTimeout", "chnWriteTimeout" }

StreamOps == { "streamGet", "streamPut", "streamRead", "streamWrite" }

\* The method each macro calls: (ip)->vmt->gett(ip, time), ...
Method(op) ==
  CASE op = "chnGetTimeout" -> "gett"
    [] op = "chnPutTimeout" -> "putt"
    [] op = "chnReadTimeout" -> "readt"
    [] op = "chnWriteTimeout" -> "writet"
    [] op = "streamGet" -> "get"
    [] op = "streamPut" -> "put"
    [] op = "streamRead" -> "read"
    [] op = "streamWrite" -> "write"

InputMethods == { "get", "gett", "read", "readt" }

\* The queue a method works on.
Side(m) == IF m \in InputMethods THEN "input" ELSE "output"
ByteMethods == { "get", "gett", "put", "putt" }

\* A thread that has made no channel call.
NoCall ==
  [ op |-> "none", n |-> 0, time0 |-> TIME_IMMEDIATE, time |-> TIME_IMMEDIATE,
    done |-> 0, ready0 |-> FALSE, suspended |-> FALSE, end |-> "none",
    ret |-> STM_OK, byte |-> 0 ]

\* No event on the channel.
NoEvent ==
  [ op |-> "none", flags |-> { }, l |-> 0, waiters |-> { }, holder |-> 0 ]

\* Bytes a method can move now: what it still wants, limited by the data
\* in the input queue or the room in the output queue.
Movable(m, n, done, q_in, q_out) ==
  Min(n - done, IF m \in InputMethods THEN Len(q_in) ELSE QueueSize - q_out)

\* What a method returns: the bytes transferred (read, write), or the
\* status, or the byte read.
MethodRet(m, end, done, byte) ==
  IF m \notin ByteMethods
    THEN done
    ELSE IF end = "ok"
           THEN IF m \in InputMethods THEN byte ELSE STM_OK
           ELSE IF end = "timeout" THEN STM_TIMEOUT ELSE STM_RESET

\* An untimed method that gives up after one tick.
StreamBudget_OneTick == TIME_IMMEDIATE + 1

\* The wait budget of the untimed methods (get, put, read, write).
StreamBudget == TIME_INFINITE

\* The call c ends: why, and what it returns.  The progress of the call is
\* in its result from then on.
Finish(c, end) ==
  [ c EXCEPT !.end = end,
             !.ret = MethodRet(Method(c.op), end, c.done, c.byte),
             !.time = TIME_IMMEDIATE, !.done = 0, !.byte = 0 ]

\* The method of call c moves the bytes it can between the caller's buffer
\* and its queue.
MethodMove(c, q_in, q_out) ==
  LET m == Method(c.op)
      k == Movable(m, c.n, c.done, q_in, q_out)
  IN  [ iq |-> IF m \in InputMethods THEN SubSeq(q_in, k + 1, Len(q_in))
                                     ELSE q_in,
        oq |-> IF m \in InputMethods THEN q_out ELSE q_out + k,
        c  |-> [ c EXCEPT !.done = @ + k,
                          !.byte = IF m \in InputMethods \cap ByteMethods
                                        /\ k > 0
                                     THEN q_in[k] ELSE @ ] ]

\* A method that suspends the caller even with the immediate budget.
AfterMove_AlwaysWaits(c) ==
  IF c.done = c.n THEN Finish(c, "ok") ELSE [ c EXCEPT !.suspended = TRUE ]

\* After moving bytes: the call is complete, or its budget is the
\* immediate one and it returns, or the caller is suspended.
AfterMove(c) ==
  IF c.done = c.n
    THEN Finish(c, "ok")
    ELSE IF c.time = TIME_IMMEDIATE
           THEN Finish(c, "timeout")
           ELSE [ c EXCEPT !.suspended = TRUE ]

\* A call of op for n bytes with the budget time.
chnStart(op, n, time, q_in, q_out) ==
  LET budget == IF op \in StreamOps THEN StreamBudget ELSE time
      c0 == [ op |-> op, n |-> n, time0 |-> budget, time |-> budget,
              done |-> 0,
              ready0 |-> Movable(Method(op), n, 0, q_in, q_out) > 0,
              suspended |-> FALSE, end |-> "none", ret |-> STM_OK,
              byte |-> 0 ]
      r == MethodMove(c0, q_in, q_out)
  IN  [ iq |-> r.iq, oq |-> r.oq, c |-> AfterMove(r.c) ]

\* A clock that runs against every budget.
Expires_Always(c) == TRUE

\* The clock runs against the budget of call c: finite budgets only.
Expires(c) == c.time \in 1 .. MaxTicks

\* One tick passes for the suspended call c.
chnTick(c) ==
  IF c.time - 1 = 0 THEN Finish(c, "timeout")
                    ELSE [ c EXCEPT !.time = @ - 1 ]

\* A reset that wakes one waiter only.
ResetWakes_One(waiters) ==
  { t \in waiters : \A u \in waiters : t <= u }

\* The waiters a queue reset wakes: all of them.
ResetWakes(waiters) == waiters

\* A broadcast that reaches every listener, registered or not yet.
osalEventBroadcastFlagsI_ToAll(regs, pend, flags) ==
  [ l \in Listeners |-> pend[l] \cup flags ]

\* osalEventBroadcastFlagsI: ORs the flags into the pending flags of the
\* listeners registered on the source.
osalEventBroadcastFlagsI(regs, pend, flags) ==
  [ l \in Listeners |-> IF l \in regs THEN pend[l] \cup flags ELSE pend[l] ]

\* A chnAddFlagsI that waits for the driver's mutex first.
chnAddFlagsI_Locked(mtx, regs, pend, flags) ==
  [ blocked |-> mtx # 0,
    pending |-> osalEventBroadcastFlagsI(regs, pend, flags) ]

\* chnAddFlagsI: { osalEventBroadcastFlagsI(&(ip)->event, flags); }
chnAddFlagsI(mtx, regs, pend, flags) ==
  [ blocked |-> FALSE,
    pending |-> osalEventBroadcastFlagsI(regs, pend, flags) ]

\* The channel after construction: empty queues, no caller, no listener.
ChannelInit ==
  /\ iq = << >>
  /\ oq = 0
  /\ call = [ t \in Threads |-> NoCall ]
  /\ registered = { }
  /\ pending = [ l \in Listeners |-> { } ]
  /\ clast = NoEvent

(***************************************************************************)
(* The two builds of drvOpen/drvClose side by side: one driver per build,  *)
(* constructed on the same storage, given the same calls and the same      *)
(* results of the start hook.                                              *)
(***************************************************************************)
\* A driver of one build after construction on storage whose state field
\* holds st: no call yet, the peripheral not started.
BuildInit(st) ==
  [ opencnt |-> base_driver_objinit_impl(st).opencnt,
    state |-> base_driver_objinit_impl(st).state,
    halt |-> Running, op |-> "objinit", pre |-> 0, ret |-> "ip",
    hooks |-> << >>, hw |-> FALSE, stopUnstarted |-> FALSE,
    startStarted |-> FALSE ]

\* The driver d after the call op whose code yields res, the start hook
\* returning startResult if invoked.  hw: the last start succeeded and no
\* stop followed it; stopUnstarted: stop was invoked while the peripheral
\* was not started; startStarted: start was invoked while it was started.
BuildStep(d, op, res, startResult) ==
  [ opencnt |-> res.opencnt, state |-> res.state, halt |-> res.halt,
    op |-> op, pre |-> d.opencnt, ret |-> res.ret, hooks |-> res.hooks,
    hw |-> IF Count(res.hooks, "start") > 0
             THEN startResult = HAL_RET_SUCCESS
             ELSE IF Count(res.hooks, "stop") > 0 THEN FALSE ELSE d.hw,
    stopUnstarted |-> (d.stopUnstarted
                         \/ (Count(res.hooks, "stop") > 0 /\ ~d.hw)),
    startStarted |-> (d.startStarted
                        \/ (Count(res.hooks, "start") > 0 /\ d.hw)) ]

\* The counts of an object with a long history of calls behind it.
NearMaxCounts == { UIntMax - k : k \in 0 .. NearMax }

\* The driver of build b, constructed on storage whose state field held
\* st, after n >= 2 drvOpen calls whose start succeeded and no drvClose:
\* the inline drvOpen has counted every call, the out-of-line drvOpen the
\* first only; the last of the calls is applied here.
BuildOpened(b, st, n) ==
  LET d == [ BuildInit(st) EXCEPT
               !.opencnt = IF b = "inline" THEN UIntDec(n) ELSE 1,
               !.state = IF b = "inline" THEN st ELSE HAL_DRV_STATE_READY,
               !.hw = TRUE ]
  IN  BuildStep(d, "drvOpen",
                drvOpen(b, d.opencnt, d.state, HAL_RET_SUCCESS),
                HAL_RET_SUCCESS)

\* The drivers of the two builds where they are compared (m = "builds"):
\* after construction on the storage of the object, or after a number of
\* successful opens near the largest count.  Where they are not used they
\* are constructed on stopped storage.
BuildsInit(m) ==
  IF m = "builds"
    THEN \/ builds = [ b \in Impls |-> BuildInit(state) ]
         \/ \E n \in NearMaxCounts :
              builds = [ b \in Impls |-> BuildOpened(b, state, n) ]
    ELSE builds = [ b \in Impls |-> BuildInit(HAL_DRV_STATE_STOP) ]

\* The threads' variables before the threads call anything: the
\* constructors have initialised each mutex; started says whether the
\* peripheral has been started and not stopped since.
ThreadsInitWith(m, started) ==
  /\ mode = m
  /\ pc = [ t \in Threads |-> "idle" ]
  /\ tmp = [ t \in Threads |-> 0 ]
  /\ held = [ t \in Threads |->
               IF m = "refs" /\ t = 1 THEN referenced_object_objinit_impl
                                      ELSE 0 ]
  /\ locks = [ t \in Threads |-> { } ]
  /\ mutex = [ i \in MutexInstances |->
                IF i = "drv" THEN osalMutexObjectInit ELSE chMtxObjectInit ]
  /\ hwStarted = started
  /\ early = FALSE
  /\ startsSinceStop = Bump(started)
  /\ okStartsSinceStop = Bump(started)
  /\ BuildsInit(m)

\* The threads' variables after construction of the objects: the
\* peripheral has not been started.
ThreadsInit(m) == ThreadsInitWith(m, FALSE)

\* The objects with the reference count refs, lastCall being the last call
\* made on them.
ObjectsInitWith(refs, lastCall) ==
  /\ impl \in Impls
  /\ vmt \in RefClasses
  /\ references = refs
  /\ \E st \in DriverStates :
       /\ opencnt = base_driver_objinit_impl(st).opencnt
       /\ state = base_driver_objinit_impl(st).state
       /\ owner = base_driver_objinit_impl(st).owner
  /\ halted = Running
  /\ last = lastCall
  /\ nops = 0
  /\ disposeCalls = 0
  /\ addRefs = 0
  /\ releases = 0
  /\ roMisuse = FALSE
  /\ startCalls = 0
  /\ startFails = 0
  /\ stopCalls = 0
  /\ opens = 0
  /\ closes = 0
  /\ trans01 = 0
  /\ trans10 = 0
  /\ runs = 0
  /\ runsDone = 0
  /\ openFailed = FALSE
  /\ scenario = 0
  /\ ownerSet = NULL
  /\ round = [ t \in Threads |-> 0 ]
  /\ ChannelInit

\* The objects after construction.
ObjectsInit ==
  ObjectsInitWith(objinit(vmt),
                  [ op |-> "objinit",
                    pre |-> [ references |-> 0, opencnt |-> 0,
                              state |-> HAL_DRV_STATE_UNINIT ],
                    ret |-> "ip", hooks |-> << >>, hookRet |-> "none",
                    afterFailedOpen |-> FALSE, via |-> "api",
                    arg |-> "none" ])

Init == ObjectsInit /\ ThreadsInit("sequential")

\* A call on the referenced object, with the result res of its code; via
\* is "api" for a call of the operation itself, or the driver function that
\* made the call.
RefCallVia(op, res, direct, via) ==
  /\ references' = res.references
  /\ halted' = res.halt
  /\ last' = [ op |-> op, pre |-> Fields, ret |-> res.ret,
               hooks |-> res.hooks, hookRet |-> "none",
               afterFailedOpen |-> FALSE, via |-> via, arg |-> "none" ]
  /\ nops' = nops + 1
  /\ disposeCalls' = disposeCalls + Count(res.hooks, "dispose")
  /\ addRefs' = addRefs + Bump(op = "roAddRef" /\ res.halt = Running)
  /\ releases' = releases + Bump(op = "roRelease" /\ res.halt = Running)
  /\ roMisuse' = (roMisuse \/ references = 0 \/ direct)
  /\ UNCHANGED << impl, vmt, drvVars, thrVars, chnVars, builds, round >>

RefCall(op, res, direct) == RefCallVia(op, res, direct, "api")

RoAddRef == CanCall /\ RefCall("roAddRef", roAddRef(references), FALSE)

RoRelease == CanCall /\ RefCall("roRelease", roRelease(references), FALSE)

\* A direct call of the object's dispose method.
RoDispose ==
  CanCall /\ RefCall("dispose", dispose(vmt, references), TRUE)

\* The next position in the open, open, close, close, close scenario.
ScenarioStep(op, startResult) ==
  IF /\ op = "drvOpen"
     /\ startResult = HAL_RET_SUCCESS
     /\ scenario \in { 0, 1 }
    THEN scenario + 1
    ELSE IF op = "drvClose" /\ scenario \in { 2, 3, 4 }
           THEN scenario + 1
           ELSE -1

\* A call on the driver, with the result res of its code; startResult is
\* what the start (or configure) hook returns if the call invokes it.
DrvCall(op, res, startResult) ==
  /\ opencnt' = res.opencnt
  /\ state' = res.state
  /\ halted' = res.halt
  /\ last' = [ op |-> op, pre |-> Fields, ret |-> res.ret,
               hooks |-> res.hooks,
               hookRet |-> IF Count(res.hooks, "start")
                                + Count(res.hooks, "configure") > 0
                             THEN startResult ELSE "none",
               afterFailedOpen |-> (op = "drvOpen" /\ openFailed),
               via |-> "api", arg |-> "none" ]
  /\ openFailed' = IF op = "drvOpen" THEN res.ret # HAL_RET_SUCCESS
                                     ELSE openFailed
  /\ scenario' = ScenarioStep(op, startResult)
  /\ nops' = nops + 1
  /\ startCalls' = startCalls + Count(res.hooks, "start")
  /\ startFails' = startFails
                     + Bump(Count(res.hooks, "start") > 0
                            /\ res.ret # HAL_RET_SUCCESS)
  /\ stopCalls' = stopCalls + Count(res.hooks, "stop")
  /\ opens' = opens + Bump(op = "drvOpen" /\ res.ret = HAL_RET_SUCCESS)
  /\ closes' = closes + Bump(op = "drvClose" /\ res.halt = Running)
  /\ trans01' = trans01 + Bump(opencnt = 0 /\ res.opencnt = 1)
  /\ trans10' = trans10 + Bump(opencnt = 1 /\ res.opencnt = 0)
  /\ runs' = runs + Bump(op = "drvOpen" /\ res.ret = HAL_RET_SUCCESS
                         /\ Outstanding = 0)
  /\ runsDone' = runsDone + Bump(op = "drvClose" /\ res.halt = Running
                                 /\ Outstanding = 1)
  /\ UNCHANGED << impl, owner, ownerSet, refVars, thrVars, chnVars, builds,
                  round >>

\* drvOpen, the start hook returning startResult if it is invoked.
DrvOpen(startResult) ==
  /\ CanCall
  /\ DrvCall("drvOpen", drvOpen(impl, opencnt, state, startResult), startResult)

DrvClose ==
  CanCall /\ DrvCall("drvClose", drvClose(impl, opencnt, state), "none")

\* drvConfigureX, the configure hook returning configResult if invoked.
DrvConfigureX(configResult) ==
  /\ CanCall
  /\ DrvCall("drvConfigureX", drvConfigureX(opencnt, state, configResult),
             configResult)

\* A call of the driver's dispose method.
DrvDispose ==
  CanCall /\ DrvCall("drvDispose", base_driver_dispose_impl(opencnt, state),
                     "none")

\* drvClose of the reference-counted driver; the object is a driver.
RefDrvClose ==
  /\ CanCall
  /\ vmt \in { "base_driver", "com_driver" }
  /\ RefCallVia("roRelease", ref_drvClose(references), FALSE, "drvClose")

\* A call of an accessor with the argument arg: obj is the object after it,
\* ret what it returns.
AccessorCallArg(op, obj, ret, arg) ==
  /\ vmt' = obj.vmt
  /\ state' = obj.state
  /\ owner' = obj.owner
  /\ last' = [ op |-> op, pre |-> Fields, ret |-> ret, hooks |-> << >>,
               hookRet |-> "none", afterFailedOpen |-> FALSE,
               via |-> "api", arg |-> arg ]
  /\ nops' = nops + 1
  /\ UNCHANGED << impl, references, opencnt, halted, disposeCalls, addRefs,
                  releases, roMisuse, startCalls, startFails, stopCalls,
                  opens, closes, trans01, trans10, runs, runsDone,
                  openFailed, scenario, thrVars, chnVars, builds, round >>

AccessorCall(op, obj, ret) == AccessorCallArg(op, obj, ret, "none")

DrvGetStateX ==
  /\ CanCall
  /\ AccessorCall("drvGetStateX", Object, drvGetStateX(Object))
  /\ UNCHANGED ownerSet

DrvSetStateX(st) ==
  /\ CanCall
  /\ AccessorCallArg("drvSetStateX", drvSetStateX(Object, st), "void", st)
  /\ UNCHANGED ownerSet

DrvGetOwnerX ==
  /\ CanCall
  /\ AccessorCall("drvGetOwnerX", Object, drvGetOwnerX(Object))
  /\ UNCHANGED ownerSet

DrvGetInterfaceX ==
  /\ CanCall
  /\ AccessorCall("drvGetInterfaceX", Object, drvGetInterfaceX(Object))
  /\ UNCHANGED ownerSet

\* __referenced_object_getref_impl called on the object.
RoGetRef ==
  /\ CanCall
  /\ AccessorCall("getref", Object, referenced_object_getref_impl(references))
  /\ UNCHANGED ownerSet

DrvSetOwnerX(o) ==
  /\ CanCall
  /\ AccessorCallArg("drvSetOwnerX", drvSetOwnerX(Object, o), "void", o)
  /\ ownerSet' = o

\* drvLock and drvUnlock called by the single client (thread 1) of the
\* sequential specification.
LockCall(op, mtx, held1) ==
  /\ mutex' = [ mutex EXCEPT !["drv"] = mtx ]
  /\ locks' = [ locks EXCEPT ![1] = held1 ]
  /\ last' = [ op |-> op, pre |-> Fields, ret |-> "void", hooks |-> << >>,
               hookRet |-> "none", afterFailedOpen |-> FALSE,
               via |-> "api", arg |-> "none" ]
  /\ nops' = nops + 1
  /\ UNCHANGED << impl, refVars, drvVars, halted, mode, pc, tmp, held,
                  hwStarted, early, startsSinceStop, okStartsSinceStop,
                  chnVars, builds, round >>

DrvLock ==
  /\ CanCall
  /\ drvLock(mutex["drv"], 1).acquired
  /\ LockCall("drvLock", drvLock(mutex["drv"], 1).mtx,
              locks[1] \cup { "drv" })

DrvUnlock ==
  /\ CanCall
  /\ "drv" \in locks[1]
  /\ LockCall("drvUnlock", drvUnlock(mutex["drv"], 1), locks[1] \ { "drv" })

Next ==
  \/ RefDrvClose
  \/ DrvGetStateX
  \/ \E st \in DriverStates : DrvSetStateX(st)
  \/ DrvGetOwnerX
  \/ DrvGetInterfaceX
  \/ RoGetRef
  \/ \E o \in Owners : DrvSetOwnerX(o)
  \/ DrvLock
  \/ DrvUnlock
  \/ RoAddRef
  \/ RoRelease
  \/ RoDispose
  \/ \E r \in StartResults : DrvOpen(r)
  \/ DrvClose
  \/ \E r \in ConfigResults : DrvConfigureX(r)
  \/ DrvDispose

Spec == Init /\ [][Next]_vars

(***************************************************************************)
(* The reference count near the largest value of its type.  An object      *)
(* whose holders have added references for long enough holds a count near  *)
(* UINT_MAX; the calls on the referenced object are examined from there    *)
(* as well as from construction.  The counters of calls count the calls    *)
(* made from the initial state on.                                         *)
(***************************************************************************)
\* The roAddRef that took the count to refs.
AddRefCall(refs) ==
  [ op |-> "roAddRef",
    pre |-> [ references |-> UIntDec(refs), opencnt |-> opencnt,
              state |-> state ],
    ret |-> roAddRef(UIntDec(refs)).ret,
    hooks |-> roAddRef(UIntDec(refs)).hooks, hookRet |-> "none",
    afterFailedOpen |-> FALSE, via |-> "api", arg |-> "none" ]

InitRefs ==
  /\ \/ ObjectsInit
     \/ \E refs \in NearMaxCounts : ObjectsInitWith(refs, AddRefCall(refs))
  /\ ThreadsInit("sequential")

NextRefs ==
  \/ RoAddRef
  \/ RoRelease
  \/ RoGetRef
  \/ RoDispose

SpecRefs == InitRefs /\ [][NextRefs]_vars

(***************************************************************************)
(* Concurrent clients.  Threads call into the same objects; a thread can   *)
(* be preempted between any two accesses of a field (objp->references++,   *)
(* --objp->references, objp->opencnt++, --objp->opencnt are plain          *)
(* read-modify-write statements, each assertion and each test is a read    *)
(* of its own), before the call of a hook and while it is inside the       *)
(* hook.  Every step makes one access.  A thread uses only what it holds:  *)
(* it adds or releases a reference only while it holds one, and closes     *)
(* only after an open of its own that succeeded.                           *)
(***************************************************************************)
\* The variables a thread step never touches.
seqVars ==
  << impl, vmt, owner, last, roMisuse, trans01, trans10, runs, runsDone,
     openFailed, scenario, ownerSet, mode, chnVars, builds, round >>

CanBegin(t) == halted = Running /\ pc[t] = "idle" /\ nops < MaxThreadCalls

\* The positions between the test of the open-count and the end of the
\* start hook; tmp holds the count the test read.
OpenSection == { "open_w", "open_call", "open_start" }

\* The positions inside roAddRef.
AddRefSection == { "addref_w", "addref_a" }

\* A driver call is allowed by the clients' discipline.
DrvAllowed(t) ==
  \/ mode = "open"
  \/ mode = "bracketed" /\ "drv" \in locks[t]

Capped(n) == IF n < 2 THEN n + 1 ELSE 2

\* The threads race on the counters with no synchronisation, so where a
\* thread uses a field it has just written, the build may use the value
\* it wrote (kept in a register) or read the field again.
Seen(written, field) == { written, field }

\* The value a thread wrote with ++ or -- after it read tmp[t].
Incremented(t) == UIntInc(tmp[t])

Decremented(t) == UIntDec(tmp[t])

refCounters == << disposeCalls, addRefs, releases >>

drvCounters == << startCalls, startFails, stopCalls, opens, closes >>

hwVars == << hwStarted, early, startsSinceStop, okStartsSinceStop >>

\* __referenced_object_addref_impl, the read of objp->references++.
TAddRefRead(t) ==
  /\ CanBegin(t)
  /\ mode = "refs"
  /\ held[t] > 0
  /\ pc' = [ pc EXCEPT ![t] = "addref_w" ]
  /\ tmp' = [ tmp EXCEPT ![t] = references ]
  /\ nops' = nops + 1
  /\ UNCHANGED << seqVars, references, opencnt, state, halted, refCounters,
                  drvCounters, held, locks, mutex, hwVars >>

\* __referenced_object_addref_impl, the write of objp->references++.
TAddRefWrite(t) ==
  /\ halted = Running
  /\ pc[t] = "addref_w"
  /\ references' = Incremented(t)
  /\ pc' = [ pc EXCEPT ![t] = "addref_a" ]
  /\ UNCHANGED << seqVars, opencnt, state, halted, nops, refCounters,
                  drvCounters, tmp, held, locks, mutex, hwVars >>

\* __referenced_object_addref_impl, the overflow assertion and the return;
\* the new reference goes to thread u.
TAddRefAssert(t, u) ==
  /\ halted = Running
  /\ pc[t] = "addref_a"
  /\ \E v \in Seen(Incremented(t), references) :
       /\ halted' = osalDbgAssert(v # 0, "overflow")
       /\ IF v # 0
            THEN /\ addRefs' = addRefs + 1
                 /\ held' = [ held EXCEPT ![u] = @ + 1 ]
                 /\ pc' = [ pc EXCEPT ![t] = "idle" ]
            ELSE UNCHANGED << addRefs, held, pc >>
  /\ UNCHANGED << seqVars, references, opencnt, state, nops, disposeCalls,
                  releases, drvCounters, tmp, locks, mutex, hwVars >>

\* __referenced_object_release_impl, the assertion; the thread gives up
\* the reference it holds.
TReleaseAssert(t) ==
  /\ CanBegin(t)
  /\ mode = "refs"
  /\ held[t] > 0
  /\ halted' = osalDbgAssert(UIntLess(0, references), "zero references")
  /\ pc' = [ pc EXCEPT ![t] = IF UIntLess(0, references) THEN "release_r"
                                                          ELSE "idle" ]
  /\ held' = [ held EXCEPT ![t] = @ - 1 ]
  /\ nops' = nops + 1
  /\ UNCHANGED << seqVars, references, opencnt, state, refCounters,
                  drvCounters, tmp, locks, mutex, hwVars >>

\* __referenced_object_release_impl, the read of --objp->references.
TReleaseRead(t) ==
  /\ halted = Running
  /\ pc[t] = "release_r"
  /\ tmp' = [ tmp EXCEPT ![t] = references ]
  /\ pc' = [ pc EXCEPT ![t] = "release_w" ]
  /\ UNCHANGED << seqVars, references, opencnt, state, halted, nops,
                  refCounters, drvCounters, held, locks, mutex, hwVars >>

\* __referenced_object_release_impl, the write of --objp->references.
TReleaseWrite(t) ==
  /\ halted = Running
  /\ pc[t] = "release_w"
  /\ references' = Decremented(t)
  /\ pc' = [ pc EXCEPT ![t] = "release_t" ]
  /\ UNCHANGED << seqVars, opencnt, state, halted, nops, refCounters,
                  drvCounters, tmp, held, locks, mutex, hwVars >>

\* __referenced_object_release_impl, the test == 0U of the count written.
TReleaseTest(t) ==
  /\ halted = Running
  /\ pc[t] = "release_t"
  /\ \E v \in Seen(Decremented(t), references) :
       pc' = [ pc EXCEPT ![t] = IF v = 0 THEN "release_d" ELSE "release_ret" ]
  /\ UNCHANGED << seqVars, references, opencnt, state, halted, nops,
                  refCounters, drvCounters, tmp, held, locks, mutex, hwVars >>

\* __referenced_object_release_impl, the call of the dispose
\* implementation, which asserts that the count is zero.
TReleaseDispose(t) ==
  /\ halted = Running
  /\ pc[t] = "release_d"
  /\ disposeCalls' = disposeCalls + 1
  /\ \E v \in Seen(Decremented(t), references) :
       /\ halted' = dispose(vmt, v).halt
       /\ pc' = [ pc EXCEPT ![t] = IF dispose(vmt, v).halt = Running
                                     THEN "release_ret" ELSE "release_d" ]
  /\ UNCHANGED << seqVars, references, opencnt, state, nops, addRefs,
                  releases, drvCounters, tmp, held, locks, mutex, hwVars >>

\* __referenced_object_release_impl, return objp->references; tmp keeps
\* the value returned.
TReleaseReturn(t) ==
  /\ halted = Running
  /\ pc[t] = "release_ret"
  /\ \E v \in Seen(Decremented(t), references) :
       tmp' = [ tmp EXCEPT ![t] = v ]
  /\ releases' = releases + 1
  /\ pc' = [ pc EXCEPT ![t] = "idle" ]
  /\ UNCHANGED << seqVars, references, opencnt, state, halted, nops,
                  disposeCalls, addRefs, drvCounters, held, locks, mutex,
                  hwVars >>

\* A drvOpen returns HAL_RET_SUCCESS to thread t without calling start.
OpenReturnsSuccess(t) ==
  /\ pc' = [ pc EXCEPT ![t] = "idle" ]
  /\ held' = [ held EXCEPT ![t] = @ + 1 ]
  /\ opens' = opens + 1
  /\ early' = (early \/ \E u \in Threads : pc[u] = "open_start")

\* The drvOpen of thread t found the open-count at 0: start is to be called.
OpenCallsStart(t) ==
  /\ pc' = [ pc EXCEPT ![t] = "open_call" ]
  /\ UNCHANGED << held, opens, early >>

\* Inline drvOpen, the read of objp->opencnt++.
TOpenInlineRead(t) ==
  /\ CanBegin(t)
  /\ DrvAllowed(t)
  /\ impl = "inline"
  /\ pc' = [ pc EXCEPT ![t] = "open_w" ]
  /\ tmp' = [ tmp EXCEPT ![t] = opencnt ]
  /\ nops' = nops + 1
  /\ UNCHANGED << seqVars, references, opencnt, state, halted, refCounters,
                  drvCounters, held, locks, mutex, hwVars >>

\* Inline drvOpen, the write of objp->opencnt++ and the test == 0U of the
\* value read: on to the call of start, or the return of HAL_RET_SUCCESS.
TOpenInlineWrite(t) ==
  /\ halted = Running
  /\ pc[t] = "open_w"
  /\ opencnt' = Incremented(t)
  /\ IF tmp[t] = 0 THEN OpenCallsStart(t) ELSE OpenReturnsSuccess(t)
  /\ UNCHANGED << seqVars, references, state, halted, nops, refCounters,
                  startCalls, startFails, stopCalls, closes, tmp, locks,
                  mutex, hwStarted, startsSinceStop, okStartsSinceStop >>

\* Out-of-line drvOpen, the test objp->opencnt == 0U: on to the call of
\* start, or the return of HAL_RET_SUCCESS.
TOpenOutOfLineTest(t) ==
  /\ CanBegin(t)
  /\ DrvAllowed(t)
  /\ impl = "outofline"
  /\ tmp' = [ tmp EXCEPT ![t] = opencnt ]
  /\ nops' = nops + 1
  /\ IF opencnt = 0 THEN OpenCallsStart(t) ELSE OpenReturnsSuccess(t)
  /\ UNCHANGED << seqVars, references, opencnt, state, halted, refCounters,
                  startCalls, startFails, stopCalls, closes, locks, mutex,
                  hwStarted, startsSinceStop, okStartsSinceStop >>

\* drvOpen (both builds), the call objp->vmt->start(objp).
TStartCall(t) ==
  /\ halted = Running
  /\ pc[t] = "open_call"
  /\ pc' = [ pc EXCEPT ![t] = "open_start" ]
  /\ startCalls' = startCalls + 1
  /\ startsSinceStop' = Capped(startsSinceStop)
  /\ UNCHANGED << seqVars, references, opencnt, state, halted, nops,
                  refCounters, startFails, stopCalls, opens, closes, tmp,
                  held, locks, mutex, hwStarted, early, okStartsSinceStop >>

\* The start hook returns r: the inline drvOpen returns it to thread t, the
\* out-of-line drvOpen goes on to count the open or to set the state.
TStartReturn(t, r) ==
  /\ halted = Running
  /\ pc[t] = "open_start"
  /\ hwStarted' = (hwStarted \/ r = HAL_RET_SUCCESS)
  /\ okStartsSinceStop' = IF r = HAL_RET_SUCCESS
                            THEN Capped(okStartsSinceStop)
                            ELSE okStartsSinceStop
  /\ startFails' = startFails + Bump(r # HAL_RET_SUCCESS)
  /\ IF impl = "inline"
       THEN /\ pc' = [ pc EXCEPT ![t] = "idle" ]
            /\ opens' = opens + Bump(r = HAL_RET_SUCCESS)
            /\ held' = [ held EXCEPT ![t] = @ + Bump(r = HAL_RET_SUCCESS) ]
       ELSE /\ pc' = [ pc EXCEPT ![t] = IF r = HAL_RET_SUCCESS
                                          THEN "open_r" ELSE "open_f" ]
            /\ UNCHANGED << opens, held >>
  /\ UNCHANGED << seqVars, references, opencnt, state, halted, nops,
                  refCounters, startCalls, stopCalls, closes, tmp, locks,
                  mutex, early, startsSinceStop >>

\* Out-of-line drvOpen after a successful start, the read of
\* objp->opencnt++.
TOpenCountRead(t) ==
  /\ halted = Running
  /\ pc[t] = "open_r"
  /\ tmp' = [ tmp EXCEPT ![t] = opencnt ]
  /\ pc' = [ pc EXCEPT ![t] = "open_c" ]
  /\ UNCHANGED << seqVars, references, opencnt, state, halted, nops,
                  refCounters, drvCounters, held, locks, mutex, hwVars >>

\* Out-of-line drvOpen after a successful start, the write of
\* objp->opencnt++.
TOpenCountWrite(t) ==
  /\ halted = Running
  /\ pc[t] = "open_c"
  /\ opencnt' = Incremented(t)
  /\ pc' = [ pc EXCEPT ![t] = "open_s" ]
  /\ UNCHANGED << seqVars, references, state, halted, nops, refCounters,
                  drvCounters, tmp, held, locks, mutex, hwVars >>

\* Out-of-line drvOpen after a successful start,
\* objp->state = HAL_DRV_STATE_READY and the return of HAL_RET_SUCCESS.
TOpenStateReady(t) ==
  /\ halted = Running
  /\ pc[t] = "open_s"
  /\ state' = HAL_DRV_STATE_READY
  /\ opens' = opens + 1
  /\ held' = [ held EXCEPT ![t] = @ + 1 ]
  /\ pc' = [ pc EXCEPT ![t] = "idle" ]
  /\ UNCHANGED << seqVars, references, opencnt, halted, nops, refCounters,
                  startCalls, startFails, stopCalls, closes, tmp, locks,
                  mutex, hwVars >>

\* Out-of-line drvOpen after a failed start,
\* objp->state = HAL_DRV_STATE_STOP and the return of the failure code.
TOpenStateStop(t) ==
  /\ halted = Running
  /\ pc[t] = "open_f"
  /\ state' = HAL_DRV_STATE_STOP
  /\ pc' = [ pc EXCEPT ![t] = "idle" ]
  /\ UNCHANGED << seqVars, references, opencnt, halted, nops, refCounters,
                  drvCounters, tmp, held, locks, mutex, hwVars >>

\* drvClose (both builds), the assertion; the thread gives up an open it
\* holds.
TCloseAssert(t) ==
  /\ CanBegin(t)
  /\ DrvAllowed(t)
  /\ held[t] > 0
  /\ halted' = osalDbgAssert(UIntLess(0, opencnt), "not opened")
  /\ pc' = [ pc EXCEPT ![t] = IF UIntLess(0, opencnt) THEN "close_r"
                                                       ELSE "idle" ]
  /\ held' = [ held EXCEPT ![t] = @ - 1 ]
  /\ nops' = nops + 1
  /\ UNCHANGED << seqVars, references, opencnt, state, refCounters,
                  drvCounters, tmp, locks, mutex, hwVars >>

\* drvClose, the read of --objp->opencnt.
TCloseRead(t) ==
  /\ halted = Running
  /\ pc[t] = "close_r"
  /\ tmp' = [ tmp EXCEPT ![t] = opencnt ]
  /\ pc' = [ pc EXCEPT ![t] = "close_w" ]
  /\ UNCHANGED << seqVars, references, opencnt, state, halted, nops,
                  refCounters, drvCounters, held, locks, mutex, hwVars >>

\* drvClose, the write of --objp->opencnt.
TCloseWrite(t) ==
  /\ halted = Running
  /\ pc[t] = "close_w"
  /\ opencnt' = Decremented(t)
  /\ pc' = [ pc EXCEPT ![t] = "close_t" ]
  /\ UNCHANGED << seqVars, references, state, halted, nops, refCounters,
                  drvCounters, tmp, held, locks, mutex, hwVars >>

\* drvClose, the test == 0U of the count written: on to the stop of the
\* peripheral, or the return.
TCloseTest(t) ==
  /\ halted = Running
  /\ pc[t] = "close_t"
  /\ \E v \in Seen(Decremented(t), opencnt) :
       IF v = 0
         THEN /\ pc' = [ pc EXCEPT ![t] = IF impl = "outofline"
                                            THEN "close_s" ELSE "close_call" ]
              /\ UNCHANGED closes
         ELSE /\ pc' = [ pc EXCEPT ![t] = "idle" ]
              /\ closes' = closes + 1
  /\ UNCHANGED << seqVars, references, opencnt, state, halted, nops,
                  refCounters, startCalls, startFails, stopCalls, opens,
                  tmp, held, locks, mutex, hwVars >>

\* Out-of-line drvClose, objp->state = HAL_DRV_STATE_STOP.
TCloseStateStop(t) ==
  /\ halted = Running
  /\ pc[t] = "close_s"
  /\ state' = HAL_DRV_STATE_STOP
  /\ pc' = [ pc EXCEPT ![t] = "close_call" ]
  /\ UNCHANGED << seqVars, references, opencnt, halted, nops, refCounters,
                  drvCounters, tmp, held, locks, mutex, hwVars >>

\* drvClose, the call objp->vmt->stop(ip).
TStopCall(t) ==
  /\ halted = Running
  /\ pc[t] = "close_call"
  /\ stopCalls' = stopCalls + 1
  /\ pc' = [ pc EXCEPT ![t] = "close_stop" ]
  /\ UNCHANGED << seqVars, references, opencnt, state, halted, nops,
                  refCounters, startCalls, startFails, opens, closes, tmp,
                  held, locks, mutex, hwVars >>

\* The stop hook returns and drvClose returns to thread t.
TStopReturn(t) ==
  /\ halted = Running
  /\ pc[t] = "close_stop"
  /\ hwStarted' = FALSE
  /\ startsSinceStop' = 0
  /\ okStartsSinceStop' = 0
  /\ closes' = closes + 1
  /\ pc' = [ pc EXCEPT ![t] = "idle" ]
  /\ UNCHANGED << seqVars, references, opencnt, state, halted, nops,
                  refCounters, startCalls, startFails, stopCalls, opens,
                  tmp, held, locks, mutex, early >>

\* Thread t calls drvLock (i = "drv") or soLock (i = "so").
TLockCall(t, i) ==
  /\ halted = Running
  /\ pc[t] = "idle"
  /\ mode \in { "bracketed", "locks", "events" }
  /\ mode \in { "bracketed", "events" } => i = "drv"
  /\ i \notin locks[t]
  /\ pc' = [ pc EXCEPT ![t] = LockPc(i) ]
  /\ UNCHANGED << seqVars, references, opencnt, state, halted, nops,
                  disposeCalls, addRefs, releases, startCalls, startFails,
                  stopCalls, opens, closes, tmp, held, locks, mutex,
                  hwStarted, early, startsSinceStop, okStartsSinceStop >>

\* The lock call of thread t on instance i acquires the mutex and returns.
TLockReturn(t, i) ==
  /\ halted = Running
  /\ pc[t] = LockPc(i)
  /\ lock(i, mutex[i], t).acquired
  /\ mutex' = [ mutex EXCEPT ![i] = lock(i, mutex[i], t).mtx ]
  /\ locks' = [ locks EXCEPT ![t] = @ \cup { i } ]
  /\ pc' = [ pc EXCEPT ![t] = "idle" ]
  /\ UNCHANGED << seqVars, references, opencnt, state, halted, nops,
                  disposeCalls, addRefs, releases, startCalls, startFails,
                  stopCalls, opens, closes, tmp, held, hwStarted, early,
                  startsSinceStop, okStartsSinceStop >>

\* Thread t calls drvUnlock or soUnlock on a mutex it locked.
TUnlock(t, i) ==
  /\ halted = Running
  /\ pc[t] = "idle"
  /\ i \in locks[t]
  /\ mutex' = [ mutex EXCEPT ![i] = unlock(i, mutex[i], t) ]
  /\ locks' = [ locks EXCEPT ![t] = @ \ { i } ]
  /\ UNCHANGED << seqVars, references, opencnt, state, halted, nops,
                  disposeCalls, addRefs, releases, startCalls, startFails,
                  stopCalls, opens, closes, pc, tmp, held, hwStarted, early,
                  startsSinceStop, okStartsSinceStop >>

\* The objects after construction, shared by the threads; the constructor
\* does not write the state field, which holds what the storage held.
ThreadObjectsWith(cnt) ==
  /\ impl \in Impls
  /\ vmt = "synchronized_object"
  /\ references = objinit(vmt)
  /\ \E st \in DriverStates :
       /\ opencnt = cnt
       /\ state = base_driver_objinit_impl(st).state
       /\ owner = base_driver_objinit_impl(st).owner
  /\ halted = Running
  /\ last = [ op |-> "objinit", pre |-> [ references |-> 0, opencnt |-> 0,
                                           state |-> HAL_DRV_STATE_UNINIT ],
              ret |-> "ip", hooks |-> << >>, hookRet |-> "none",
              afterFailedOpen |-> FALSE, via |-> "api", arg |-> "none" ]
  /\ nops = 0
  /\ disposeCalls = 0
  /\ addRefs = 0
  /\ releases = 0
  /\ roMisuse = FALSE
  /\ startCalls = 0
  /\ startFails = 0
  /\ stopCalls = 0
  /\ opens = 0
  /\ closes = 0
  /\ trans01 = 0
  /\ trans10 = 0
  /\ runs = 0
  /\ runsDone = 0
  /\ openFailed = FALSE
  /\ scenario = 0
  /\ ownerSet = NULL
  /\ round = [ t \in Threads |-> 0 ]
  /\ ChannelInit

\* The objects after construction: __base_driver_objinit_impl has set the
\* open-count.
ThreadObjectsInit ==
  ThreadObjectsWith(base_driver_objinit_impl(HAL_DRV_STATE_UNINIT).opencnt)

InitThreads == ThreadObjectsInit /\ \E m \in Modes : ThreadsInit(m)

NextThreads ==
  \E t \in Threads :
    \/ TAddRefRead(t)
    \/ TAddRefWrite(t)
    \/ \E u \in Threads : TAddRefAssert(t, u)
    \/ TReleaseAssert(t)
    \/ TReleaseRead(t)
    \/ TReleaseWrite(t)
    \/ TReleaseTest(t)
    \/ TReleaseDispose(t)
    \/ TReleaseReturn(t)
    \/ TOpenInlineRead(t)
    \/ TOpenInlineWrite(t)
    \/ TOpenOutOfLineTest(t)
    \/ TStartCall(t)
    \/ \E r \in StartResults : TStartReturn(t, r)
    \/ TOpenCountRead(t)
    \/ TOpenCountWrite(t)
    \/ TOpenStateReady(t)
    \/ TOpenStateStop(t)
    \/ TCloseAssert(t)
    \/ TCloseRead(t)
    \/ TCloseWrite(t)
    \/ TCloseTest(t)
    \/ TCloseStateStop(t)
    \/ TStopCall(t)
    \/ TStopReturn(t)
    \/ \E i \in MutexInstances : TLockCall(t, i)
    \/ \E i \in MutexInstances : TLockReturn(t, i)
    \/ \E i \in MutexInstances : TUnlock(t, i)

SpecThreads == InitThreads /\ [][NextThreads]_vars

\* The clients that keep a locking discipline: every driver call between
\* drvLock and drvUnlock ("bracketed"), or lock and unlock calls only
\* ("locks").
LockedModes == { "bracketed", "locks" }

InitLocked == ThreadObjectsInit /\ \E m \in LockedModes : ThreadsInit(m)

NextLocked ==
  \E t \in Threads :
    \/ TOpenInlineRead(t)
    \/ TOpenInlineWrite(t)
    \/ TOpenOutOfLineTest(t)
    \/ TStartCall(t)
    \/ \E r \in StartResults : TStartReturn(t, r)
    \/ TOpenCountRead(t)
    \/ TOpenCountWrite(t)
    \/ TOpenStateReady(t)
    \/ TOpenStateStop(t)
    \/ TCloseAssert(t)
    \/ TCloseRead(t)
    \/ TCloseWrite(t)
    \/ TCloseTest(t)
    \/ TCloseStateStop(t)
    \/ TStopCall(t)
    \/ TStopReturn(t)
    \/ \E i \in MutexInstances : TLockCall(t, i)
    \/ \E i \in MutexInstances : TLockReturn(t, i)
    \/ \E i \in MutexInstances : TUnlock(t, i)

SpecLocked == InitLocked /\ [][NextLocked]_vars

(***************************************************************************)
(* The bracketed clients of a driver with a long history.  Clients that    *)
(* open the inline build under the lock and keep their opens (drvOpen      *)
(* counts every call, also the one whose start failed) take the open-count *)
(* near UINT_MAX: the first open started the peripheral and no stop        *)
(* followed.  The two threads are examined from there as well as from      *)
(* construction; the opens counted before are held by other clients, and   *)
(* the counters of calls count the calls made from the initial state on.   *)
(***************************************************************************)
InitOpened ==
  /\ \E n \in NearMaxCounts : ThreadObjectsWith(n)
  /\ impl = "inline"
  /\ ThreadsInitWith("bracketed", TRUE)

InitLockedLong == InitLocked \/ InitOpened

SpecLockedLong == InitLockedLong /\ [][NextLocked]_vars

(***************************************************************************)
(* The same client on both builds: each call is made on the driver of      *)
(* each build with the same start result, until one of them halts.         *)
(***************************************************************************)
\* The variables of the single driver, not used by the comparison.
nonBuildVars ==
  << impl, vmt, references, opencnt, state, owner, halted, last,
     disposeCalls, addRefs, releases, roMisuse, startCalls, startFails,
     stopCalls, opens, closes, trans01, trans10, runs, runsDone, openFailed,
     scenario, ownerSet, thrVars, chnVars, round >>

CanCallBuilds ==
  /\ mode = "builds"
  /\ nops < MaxOps
  /\ \A b \in Impls : builds[b].halt = Running

\* drvOpen on both drivers, the start hook returning startResult.
BuildsOpen(startResult) ==
  /\ CanCallBuilds
  /\ builds' = [ b \in Impls |->
                   BuildStep(builds[b], "drvOpen",
                             drvOpen(b, builds[b].opencnt, builds[b].state,
                                     startResult),
                             startResult) ]
  /\ nops' = nops + 1
  /\ UNCHANGED nonBuildVars

\* drvClose on both drivers.
BuildsClose ==
  /\ CanCallBuilds
  /\ builds' = [ b \in Impls |->
                   BuildStep(builds[b], "drvClose",
                             drvClose(b, builds[b].opencnt, builds[b].state),
                             "none") ]
  /\ nops' = nops + 1
  /\ UNCHANGED nonBuildVars

InitBuilds ==
  /\ ObjectsInit
  /\ impl = "inline"
  /\ vmt = "referenced_object"
  /\ ThreadsInit("builds")

NextBuilds ==
  \/ \E r \in StartResults : BuildsOpen(r)
  \/ BuildsClose

SpecBuilds == InitBuilds /\ [][NextBuilds]_vars

(***************************************************************************)
(* The client program of the mutual-exclusion build: every thread runs,    *)
(* MaxRounds times,                                                        *)
(*   drvLock; drvOpen; drvUnlock; ... drvLock; drvClose; drvUnlock         *)
(* on the one driver.  A thread inside drvLock waits until the mutex is    *)
(* free; drvOpen and drvClose run whole with the mutex held, their hooks   *)
(* included (a start hook may return a failure code, it always returns).   *)
(* pc is the statement the thread executes next.                           *)
(***************************************************************************)

\* The statements of one round, in program order; "idle" is the drvLock
\* that begins a round.
ClientProgram ==
  << "idle", "open", "unlock_open", "use", "close", "unlock_close" >>

\* The statement after statement p of the program.
AfterStatement(p) ==
  LET k == CHOOSE i \in DOMAIN ClientProgram : ClientProgram[i] = p
  IN  ClientProgram[(k % Len(ClientProgram)) + 1]

\* Thread t has run all its rounds.
Finished(t) == pc[t] = "idle" /\ round[t] = MaxRounds

\* What no statement of the client program touches.
clientFixed ==
  << impl, vmt, references, owner, last, nops, disposeCalls, addRefs,
     releases, roMisuse, trans01, trans10, runs, runsDone, openFailed,
     scenario, ownerSet, mode, tmp, held, hwStarted, early, startsSinceStop,
     okStartsSinceStop, chnVars, builds >>

\* drvLock of thread t returns: the thread was waiting for the mutex of
\* the driver and now owns it.
CLock(t) ==
  /\ mode = "clients"
  /\ halted = Running
  /\ pc[t] \in { "idle", "use" }
  /\ round[t] < MaxRounds
  /\ lock("drv", mutex["drv"], t).acquired
  /\ mutex' = [ mutex EXCEPT !["drv"] = lock("drv", mutex["drv"], t).mtx ]
  /\ locks' = [ locks EXCEPT ![t] = @ \cup { "drv" } ]
  /\ pc' = [ pc EXCEPT ![t] = AfterStatement(pc[t]) ]
  /\ UNCHANGED << clientFixed, opencnt, state, halted, startCalls,
                  startFails, stopCalls, opens, closes, round >>

\* drvOpen of thread t, the start hook returning startResult if it is
\* invoked; a call that halts on an assertion never returns.
COpen(t, startResult) ==
  LET res == drvOpen(impl, opencnt, state, startResult) IN
  /\ mode = "clients"
  /\ halted = Running
  /\ pc[t] = "open"
  /\ opencnt' = res.opencnt
  /\ state' = res.state
  /\ halted' = res.halt
  /\ startCalls' = startCalls + Count(res.hooks, "start")
  /\ startFails' = startFails
                     + Bump(Count(res.hooks, "start") > 0
                            /\ res.ret # HAL_RET_SUCCESS)
  /\ opens' = opens + Bump(res.ret = HAL_RET_SUCCESS)
  /\ pc' = [ pc EXCEPT ![t] = IF res.halt = Running
                                THEN AfterStatement(pc[t]) ELSE pc[t] ]
  /\ UNCHANGED << clientFixed, stopCalls, closes, locks, mutex, round >>

\* drvClose of thread t.
CClose(t) ==
  LET res == drvClose(impl, opencnt, state) IN
  /\ mode = "clients"
  /\ halted = Running
  /\ pc[t] = "close"
  /\ opencnt' = res.opencnt
  /\ state' = res.state
  /\ halted' = res.halt
  /\ stopCalls' = stopCalls + Count(res.hooks, "stop")
  /\ closes' = closes + Bump(res.halt = Running)
  /\ pc' = [ pc EXCEPT ![t] = IF res.halt = Running
                                THEN AfterStatement(pc[t]) ELSE pc[t] ]
  /\ UNCHANGED << clientFixed, startCalls, startFails, opens, locks, mutex,
                  round >>

\* drvUnlock of thread t; the one after drvClose ends a round.
CUnlock(t) ==
  /\ mode = "clients"
  /\ halted = Running
  /\ pc[t] \in { "unlock_open", "unlock_close" }
  /\ mutex' = [ mutex EXCEPT !["drv"] = unlock("drv", mutex["drv"], t) ]
  /\ locks' = [ locks EXCEPT ![t] = @ \ { "drv" } ]
  /\ round' = [ round EXCEPT ![t] = @ + Bump(pc[t] = "unlock_close") ]
  /\ pc' = [ pc EXCEPT ![t] = AfterStatement(pc[t]) ]
  /\ UNCHANGED << clientFixed, opencnt, state, halted, startCalls,
                  startFails, stopCalls, opens, closes >>

InitClients == ThreadObjectsInit /\ ThreadsInit("clients")

NextClients ==
  \E t \in Threads :
    \/ CLock(t)
    \/ \E r \in StartResults : COpen(t, r)
    \/ CClose(t)
    \/ CUnlock(t)

\* Every thread keeps running and the hooks return (weak fairness of the
\* statements that never wait); the mutex is fair: a thread that finds it
\* free again and again gets it (strong fairness of drvLock).
FairClients ==
  \A t \in Threads :
    /\ WF_vars((\E r \in StartResults : COpen(t, r)) \/ CClose(t)
               \/ CUnlock(t))
    /\ SF_vars(CLock(t))

SpecClients == InitClients /\ [][NextClients]_vars /\ FairClients

(***************************************************************************)
(* Clients of a channel: threads call the channel and stream operations,   *)
(* the interrupts fill and drain the queues and broadcast condition flags, *)
(* the queues can be reset, listeners register on the event source.        *)
(***************************************************************************)
\* The variables a step of the channel never touches.
nonChnVars ==
  << impl, vmt, references, opencnt, state, owner, halted, last,
     disposeCalls, addRefs, releases, roMisuse, startCalls, startFails,
     stopCalls, opens, closes, trans01, trans10, runs, runsDone, openFailed,
     scenario, ownerSet, builds, round, mode, tmp, held, locks, mutex,
     hwStarted,     early, startsSinceStop, okStartsSinceStop >>

\* The threads suspended inside a channel call.
Waiters == { t \in Threads : pc[t] = "chn_wait" }

PcAfter(c) == IF c.end = "none" THEN "chn_wait" ELSE "idle"

\* The callers of the calls that have returned take their results: only
\* the calls in progress and the call that returns in a step are kept.
Consumed(cs) ==
  [ t \in Threads |-> IF cs[t].end # "none" THEN NoCall ELSE cs[t] ]

\* Thread t calls op for n bytes with the wait budget time.  The threads are
\* interchangeable: the call is made by the first thread that is free.
ChnCall(t, op, n, time) ==
  /\ halted = Running
  /\ mode = Side(Method(op))
  /\ pc[t] = "idle"
  /\ \A u \in Threads : u < t => pc[u] # "idle"
  /\ nops < MaxChnCalls
  /\ Method(op) \in ByteMethods => n = 1
  /\ op \in StreamOps => time = TIME_INFINITE
  /\ LET r == chnStart(op, n, time, iq, oq)
     IN  /\ iq' = r.iq
         /\ oq' = r.oq
         /\ call' = [ Consumed(call) EXCEPT ![t] = r.c ]
         /\ pc' = [ pc EXCEPT ![t] = PcAfter(r.c) ]
  /\ nops' = nops + 1
  /\ clast' = NoEvent
  /\ UNCHANGED << nonChnVars, registered, pending >>

\* A tick of the clock for the suspended thread t.
ChnTick(t) ==
  /\ halted = Running
  /\ pc[t] = "chn_wait"
  /\ Expires(call[t])
  /\ call' = [ Consumed(call) EXCEPT ![t] = chnTick(call[t]) ]
  /\ pc' = [ pc EXCEPT ![t] = PcAfter(call'[t]) ]
  /\ clast' = NoEvent
  /\ UNCHANGED << nonChnVars, nops, iq, oq, registered, pending >>

\* The queues of the channel are reset.
ChnReset ==
  /\ halted = Running
  /\ mode \in { "input", "output" }
  /\ iq' = << >>
  /\ oq' = 0
  /\ call' = [ t \in Threads |->
                 IF t \in ResetWakes(Waiters) THEN Finish(call[t], "reset")
                                              ELSE Consumed(call)[t] ]
  /\ pc' = [ t \in Threads |->
               IF t \in ResetWakes(Waiters) THEN "idle" ELSE pc[t] ]
  /\ clast' = [ NoEvent EXCEPT !.op = "reset", !.waiters = Waiters ]
  /\ UNCHANGED << nonChnVars, nops, registered, pending >>

\* The queues qin and qout have become ready for the suspended thread t:
\* its call moves the bytes it can and returns if it is complete.
ChnResume(t, qin, qout) ==
  LET r == MethodMove(call[t], qin, qout)
      c == IF r.c.done = r.c.n THEN Finish(r.c, "ok") ELSE r.c
  IN  /\ iq' = r.iq
      /\ oq' = r.oq
      /\ call' = [ Consumed(call) EXCEPT ![t] = c ]
      /\ pc' = [ pc EXCEPT ![t] = PcAfter(c) ]

\* The receiver interrupt puts byte b into the input queue and wakes a
\* thread that waits for input.
RxByte(b) ==
  /\ halted = Running
  /\ mode = "input"
  /\ Len(iq) < QueueSize
  /\ IF Waiters = { }
       THEN /\ iq' = Append(iq, b)
            /\ call' = Consumed(call)
            /\ UNCHANGED << oq, pc >>
       ELSE \E t \in Waiters : ChnResume(t, Append(iq, b), oq)
  /\ clast' = NoEvent
  /\ UNCHANGED << nonChnVars, nops, registered, pending >>

\* The transmitter interrupt takes a byte from the output queue and wakes a
\* thread that waits for room.
TxByte ==
  /\ halted = Running
  /\ mode = "output"
  /\ oq > 0
  /\ IF Waiters = { }
       THEN /\ oq' = oq - 1
            /\ call' = Consumed(call)
            /\ UNCHANGED << iq, pc >>
       ELSE \E t \in Waiters : ChnResume(t, iq, oq - 1)
  /\ clast' = NoEvent
  /\ UNCHANGED << nonChnVars, nops, registered, pending >>

\* Listener l registers on chnGetEventSource(ip), with no flag pending.
ChnRegister(l) ==
  /\ halted = Running
  /\ mode = "events"
  /\ l \notin registered
  /\ registered' = registered \cup { l }
  /\ pending' = [ pending EXCEPT ![l] = { } ]
  /\ clast' = [ NoEvent EXCEPT !.op = "register", !.l = l ]
  /\ UNCHANGED << nonChnVars, nops, pc, iq, oq, call >>

\* Listener l reads and clears its pending flags.
ChnGetAndClearFlags(l) ==
  /\ halted = Running
  /\ mode = "events"
  /\ l \in registered
  /\ pending[l] # { }
  /\ pending' = [ pending EXCEPT ![l] = { } ]
  /\ clast' = NoEvent
  /\ UNCHANGED << nonChnVars, nops, pc, iq, oq, call, registered >>

\* An interrupt handler calls chnAddFlagsI(ip, flags).
ChnAddFlagsI(flags) ==
  /\ halted = Running
  /\ mode = "events"
  /\ ~chnAddFlagsI(mutex["drv"], registered, pending, flags).blocked
  /\ pending' = chnAddFlagsI(mutex["drv"], registered, pending, flags).pending
  /\ clast' = [ NoEvent EXCEPT !.op = "addflags", !.flags = flags,
                               !.holder = mutex["drv"] ]
  /\ UNCHANGED << nonChnVars, nops, pc, iq, oq, call, registered >>

\* The clients of a channel; no call on the channel reads the state field
\* of the driver, whose storage held HAL_DRV_STATE_STOPPED.
InitChannel ==
  /\ ThreadObjectsInit
  /\ impl = "inline"
  /\ state = HAL_DRV_STATE_STOPPED
  /\ \E m \in ChannelModes : ThreadsInit(m)

NextChannel ==
  \/ \E t \in Threads :
       \/ \E op \in TimedOps \cup StreamOps, n \in 1 .. MaxLen,
             time \in Budgets : ChnCall(t, op, n, time)
       \/ ChnTick(t)
       \/ TLockCall(t, "drv")
       \/ TLockReturn(t, "drv")
       \/ TUnlock(t, "drv")
  \/ ChnReset
  \/ \E b \in Bytes : RxByte(b)
  \/ TxByte
  \/ \E l \in Listeners : ChnRegister(l)
  \/ \E l \in Listeners : ChnGetAndClearFlags(l)
  \/ \E flags \in FlagMasks : ChnAddFlagsI(flags)

SpecChannel == InitChannel /\ [][NextChannel]_vars

TypeOK ==
  /\ impl \in Impls
  /\ references \in Int
  /\ opencnt \in Int
  /\ state \in DriverStates
  /\ nops \in 0 .. MaxOps
  /\ \A t \in Threads : round[t] \in 0 .. MaxRounds
  /\ Len(iq) <= QueueSize
  /\ \A k \in 1 .. Len(iq) : iq[k] \in Bytes
  /\ oq \in 0 .. QueueSize
  /\ registered \subseteq Listeners
  /\ \A l \in Listeners : pending[l] \subseteq FlagBits
  /\ \A t \in Threads : call[t].done \in 0 .. MaxLen

(***************************************************************************)
(* Properties.                                                             *)
(***************************************************************************)
\* Invocations of dispose that passed its assertion and ran to the end.
DisposeRuns == disposeCalls - Bump(halted = "not zero")

\* The last call invoked dispose.
LastDisposed == Count(last.hooks, "dispose") > 0

\* C1: as long as every roAddRef/roRelease is issued by a holder of a
\* reference (no call after the count reached zero, no direct dispose),
\* dispose has been invoked exactly once if the releases balance the
\* add-references plus the creator's reference and not at all otherwise; it
\* is invoked by the roRelease that takes the count from 1 to 0, and the
\* count is zero whenever it has been invoked.
C1_BalancedDisposedOnce ==
  ~roMisuse =>
    /\ disposeCalls = (IF releases = addRefs + 1 THEN 1 ELSE 0)
    /\ (disposeCalls > 0 => references = 0)
    /\ (LastDisposed =>
          /\ last.op = "roRelease"
          /\ last.pre.references = 1
          /\ references = 0)

C1_Witness ==
  /\ ~roMisuse
  /\ addRefs >= 2
  /\ releases = addRefs + 1
  /\ disposeCalls = 1
  /\ last.op = "roRelease"
  /\ LastDisposed

\* C2: with a start hook that never fails, start has been invoked once per
\* run of outstanding opens and stop once per run that returned to zero, a
\* drvClose matched by an earlier open is never fatal, and the start/stop
\* counts do not exceed the 0->1 / 1->0 transitions of the open-count.
C2_StartStopOncePerRun ==
  startFails = 0 =>
    /\ (halted = "not opened" => Outstanding = 0)
    /\ startCalls = runs
    /\ stopCalls = runsDone
    /\ startCalls <= trans01
    /\ stopCalls <= trans10

\* C3: in the scenario drvOpen, drvOpen, drvClose, drvClose, drvClose on a
\* fresh driver with a succeeding start hook: the first open invokes start
\* once, returns success and leaves READY; the second returns success
\* without start; the first close does not stop, the second stops exactly
\* once, the third is fatal.
C3_OpenOpenCloseCloseClose ==
  /\ (scenario = 1 /\ last.op = "drvOpen" =>
        /\ last.hooks = << "start" >>
        /\ last.ret = HAL_RET_SUCCESS
        /\ state = HAL_DRV_STATE_READY)
  /\ (scenario = 2 /\ last.op = "drvOpen" =>
        /\ last.hooks = << >>
        /\ last.ret = HAL_RET_SUCCESS)
  /\ (scenario = 3 /\ last.op = "drvClose" =>
        /\ last.hooks = << >>
        /\ halted = Running)
  /\ (scenario = 4 /\ last.op = "drvClose" =>
        /\ last.hooks = << "stop" >>
        /\ halted = Running)
  /\ (scenario = 5 /\ last.op = "drvClose" => halted = "not opened")

\* C4: a drvOpen at open-count 0 whose start hook returned a failure code
\* returns that code, leaves the open-count at 0 and the state STOPPED.
C4_FailedStartRollsBack ==
  ( /\ last.op = "drvOpen"
    /\ last.pre.opencnt = 0
    /\ last.hookRet \in StartFailures ) =>
    /\ last.ret = last.hookRet
    /\ opencnt = last.pre.opencnt
    /\ state = HAL_DRV_STATE_STOPPED

\* C5: the first drvOpen after a drvOpen that failed invokes start again,
\* and no drvOpen invokes start more than once.
C5_RetryAfterFailedOpenStarts ==
  last.op = "drvOpen" =>
    /\ Count(last.hooks, "start") <= 1
    /\ (last.afterFailedOpen => Count(last.hooks, "start") = 1)

\* C6: drvOpen at an open-count n >= 1 returns success, does not invoke
\* start and leaves the open-count at n + 1.
C6_ReopenCounts ==
  (last.op = "drvOpen" /\ UIntLess(0, last.pre.opencnt)) =>
    /\ last.ret = HAL_RET_SUCCESS
    /\ last.hooks = << >>
    /\ opencnt = last.pre.opencnt + 1

\* C7: drvClose at open-count zero halts on the assertion "not opened",
\* invokes no hook and leaves the open-count at zero.
C7_CloseAtZeroIsFatal ==
  (last.op = "drvClose" /\ last.pre.opencnt = 0) =>
    /\ halted = "not opened"
    /\ last.hooks = << >>
    /\ opencnt = 0
    /\ state = last.pre.state

C7_Witness ==
  /\ last.op = "drvClose"
  /\ last.pre.opencnt = 0
  /\ halted = "not opened"
  /\ closes >= 1

\* C8: roRelease on a positive count lowers it by exactly one and returns
\* the count left, invoking dispose within the call exactly when that is
\* zero; on a zero count it halts on an assertion, leaving the count alone
\* and dispose uninvoked.
C8_ReleaseContract ==
  last.op = "roRelease" =>
    IF last.pre.references = 0
      THEN /\ halted = "zero references"
           /\ references = last.pre.references
           /\ last.hooks = << >>
      ELSE /\ halted = Running
           /\ references = last.pre.references - 1
           /\ last.ret = references
           /\ last.hooks = (IF references = 0 THEN << "dispose" >> ELSE << >>)

C8_Witness ==
  /\ last.op = "roRelease"
  /\ last.pre.references = 1
  /\ halted = Running
  /\ last.ret = 0
  /\ last.hooks = << "dispose" >>

\* C9: over any sequence of roAddRef, roRelease and dispose calls, dispose
\* runs at most once, and the count is zero every time it runs.
C9_DisposedAtMostOnce ==
  /\ DisposeRuns <= 1
  /\ (LastDisposed /\ halted = Running => references = 0)

\* C10: roAddRef on a count at the maximum of the counter type halts on the
\* assertion "overflow"; whenever a roAddRef leaves a count that is not one
\* above the count it found, the system has halted, so no later operation
\* sees the wrapped count.
C10_AddRefOverflowFatal ==
  last.op = "roAddRef" =>
    /\ (last.pre.references = UIntMax => halted = "overflow")
    /\ (references # UIntInc(last.pre.references)
          \/ ~UIntLess(last.pre.references, references) =>
            halted = "overflow" /\ ~ENABLED NextRefs)

C10_Witness ==
  /\ last.op = "roAddRef"
  /\ last.pre.references = UIntMax
  /\ halted = "overflow"

\* C11: construction leaves the reference count at exactly 1, and a roAddRef
\* on a count below the maximum raises it by exactly 1, does not halt and
\* returns the object it was given.
C11_InitOneAddRefPlusOne ==
  /\ (last.op = "objinit" => references = 1)
  /\ (last.op = "roAddRef" /\ UIntLess(last.pre.references, UIntMax) =>
        /\ halted = Running
        /\ references = last.pre.references + 1
        /\ last.ret = "ip")

C11_Witness ==
  /\ last.op = "roAddRef"
  /\ last.pre.references = 2
  /\ references = 3
  /\ halted = Running

\* C12: dispose called on an object whose reference count is positive halts
\* on the assertion "not zero" and leaves the count alone, whatever the
\* class of the object whose dispose chain is entered.
C12_DisposeWithReferencesIsFatal ==
  (last.op = "dispose" /\ UIntLess(0, last.pre.references)) =>
    /\ halted = "not zero"
    /\ references = last.pre.references

C12_Witness ==
  /\ last.op = "dispose"
  /\ vmt = "com_driver"
  /\ last.pre.references = 2
  /\ halted = "not zero"

\* C13: dispose of a driver whose open-count is positive halts on the
\* assertion "still opened"; no driver dispose invokes stop or changes the
\* open-count or the state.
C13_DisposeWhileOpenIsFatal ==
  last.op = "drvDispose" =>
    /\ (UIntLess(0, last.pre.opencnt) => halted = "still opened")
    /\ Count(last.hooks, "stop") = 0
    /\ opencnt = last.pre.opencnt
    /\ state = last.pre.state

C13_Witness ==
  /\ last.op = "drvDispose"
  /\ last.pre.opencnt = 2
  /\ halted = "still opened"
  /\ opencnt = 2

\* C14: drvConfigureX at open-count zero halts on an assertion without
\* invoking the configure hook; at a positive open-count it invokes the
\* hook exactly once, returns the hook's status and leaves the open-count
\* unchanged.
C14_ConfigureNeedsOpen ==
  last.op = "drvConfigureX" =>
    IF last.pre.opencnt = 0
      THEN /\ halted = "not opened"
           /\ last.hooks = << >>
           /\ opencnt = 0
      ELSE /\ halted = Running
           /\ last.hooks = << "configure" >>
           /\ last.ret = last.hookRet
           /\ opencnt = last.pre.opencnt

C14_Witness ==
  /\ last.op = "drvConfigureX"
  /\ last.pre.opencnt = 1
  /\ last.hooks = << "configure" >>
  /\ last.ret = "HAL_RET_CONFIG_ERROR"
  /\ halted = Running

\* C19: right after construction the driver state is STOPPED, the
\* open-count is 0 and the owner is empty.
C19_ConstructedStopped ==
  last.op = "objinit" =>
    /\ state = HAL_DRV_STATE_STOPPED
    /\ opencnt = 0
    /\ owner = NULL

\* C20: a drvOpen that takes the open-count from 0 to 1 with a start hook
\* that succeeded leaves the state READY.
C20_OpenedIsReady ==
  ( /\ last.op = "drvOpen"
    /\ last.pre.opencnt = 0
    /\ opencnt = 1
    /\ last.hookRet = HAL_RET_SUCCESS ) =>
    state = HAL_DRV_STATE_READY

(***************************************************************************)
(* Properties of the concurrent clients (SpecThreads).                     *)
(***************************************************************************)
AllIdle == \A t \in Threads : pc[t] = "idle"

\* Threads inside the test-increment-start sequence of drvOpen.
InOpenSection == { t \in Threads : pc[t] \in OpenSection }

\* Threads whose drvOpen found the open-count at 0 and has not finished.
Observers01 == { t \in InOpenSection : tmp[t] = 0 }

\* Threads between a returned lock of instance i and its unlock.
Holders(i) == { t \in Threads : i \in locks[t] }

\* C15: drvOpen may be called concurrently with no locking by the callers:
\* the test-increment-start sequences of two calls never interleave, start
\* is never invoked while another start is in progress or after one has
\* succeeded (exactly one start for the 0 -> 1 transition), no update of
\* the open-count is lost (inline build: once all calls returned, the count
\* is the number of drvOpen calls minus the number of drvClose calls), and
\* no caller gets HAL_RET_SUCCESS while the start hook is still running.
C15_UnlockedOpenIsSerialized ==
  mode = "open" =>
    /\ Cardinality(InOpenSection) <= 1
    /\ \A t \in Threads : pc[t] = "open_start" => ~hwStarted
    /\ (AllIdle /\ halted = Running /\ impl = "inline") =>
         opencnt = opens + startFails - closes
    /\ ~early

\* C16: when every thread brackets each drvOpen and drvClose with
\* drvLock/drvUnlock, no two threads observe the open-count transition
\* 0 -> 1 in the same activation cycle, and start is invoked at most once
\* between two consecutive stop invocations.
C16_BracketedStartOncePerCycle ==
  mode = "bracketed" =>
    /\ Cardinality(Observers01) <= 1
    /\ startsSinceStop <= 1

\* The same with the retry after a failed start allowed (a start that
\* failed may be followed by another start with no stop in between): under
\* the bracketing no two threads observe the transition 0 -> 1 in the same
\* activation cycle, start is never invoked on a started peripheral, and at
\* most one start succeeds between two consecutive stop invocations.  It
\* holds from construction (SpecLocked) and fails where the inline
\* open-count wraps (SpecLockedLong).
BracketedOneSuccessfulStartPerCycle ==
  mode = "bracketed" =>
    /\ Cardinality(Observers01) <= 1
    /\ \A t \in Threads : pc[t] = "open_start" => ~hwStarted
    /\ okStartsSinceStop <= 1

\* C17: reference-count increments and decrements of concurrent threads are
\* atomic: once all calls returned, the count is the initial count plus the
\* add-references minus the releases, and dispose has not run while a
\* thread is inside an add-reference or holds a reference it has not
\* released.
C17_RefCountAtomic ==
  mode = "refs" =>
    /\ (AllIdle /\ halted = Running) =>
         references = referenced_object_objinit_impl + addRefs - releases
    /\ disposeCalls > 0 =>
         \A t \in Threads : held[t] = 0 /\ pc[t] \notin AddRefSection

\* C18: the mutex of an instance gives mutual exclusion: it is unlocked
\* while no thread has locked it (in particular after construction), at
\* most one thread is between a returned lock and its unlock, a lock call
\* issued while another thread holds the mutex cannot return, and a lock
\* call on a free mutex can return whatever the other instance's mutex is.
C18_MutexExclusion ==
  \A i \in MutexInstances :
    /\ Cardinality(Holders(i)) <= 1
    /\ (Holders(i) = { }) <=> (mutex[i] = NoThread)
    /\ \A t \in Threads :
         (pc[t] = LockPc(i) /\ halted = Running) =>
           (ENABLED TLockReturn(t, i) <=> Holders(i) = { })

\* Witness of C18: thread 1 holds the driver's mutex, thread 2 holds the
\* synchronized object's mutex and waits in drvLock.
C18_Witness ==
  /\ mode = "locks"
  /\ locks[1] = { "drv" }
  /\ locks[2] = { "so" }
  /\ pc[2] = "lock_drv"
  /\ mutex["drv"] = 1 /\ mutex["so"] = 2

(***************************************************************************)
(* Properties of drvClose, of the two counters and of the accessors.       *)
(***************************************************************************)
\* C21: a drvClose that brings the open-count to zero invokes the stop hook
\* and leaves the state HAL_DRV_STATE_STOPPED; a drvClose that leaves the
\* open-count positive invokes no hook and leaves the state as it was.
C21_CloseToZeroStops ==
  (last.op = "drvClose" /\ halted = Running) =>
    IF opencnt = 0
      THEN last.hooks = << "stop" >> /\ state = HAL_DRV_STATE_STOPPED
      ELSE last.hooks = << >> /\ state = last.pre.state

\* C22: drvOpen and drvClose (of every driver variant) leave the reference
\* count as it was and never run dispose; roAddRef and roRelease leave the
\* open-count as it was and invoke neither start nor stop.
C22_CountersIndependent ==
  /\ (last.op \in { "drvOpen", "drvClose" } \/ last.via = "drvClose") =>
       /\ references = last.pre.references
       /\ Count(last.hooks, "dispose") = 0
  /\ (last.op \in { "roAddRef", "roRelease" } /\ last.via = "api") =>
       /\ opencnt = last.pre.opencnt
       /\ Count(last.hooks, "start") + Count(last.hooks, "stop") = 0

\* C28: the method-table reference is the one set at construction: no call
\* (roAddRef, roRelease, drvOpen, drvClose, drvConfigureX, drvSetStateX,
\* drvSetOwnerX, drvLock, drvUnlock, the accessors, dispose) changes it.
C28_VmtSetOnce == [][vmt' = vmt]_vars

\* Witness of C28: the object is a com driver, calls have been made on it,
\* the last one a drvSetOwnerX that stored an owner.
C28_Witness ==
  /\ vmt = "com_driver"
  /\ last.op = "drvSetOwnerX"
  /\ owner = "app"
  /\ nops >= 3

\* C29: the owner is the argument of the most recent drvSetOwnerX (NULL if
\* there was none since construction) after any sequence of calls, and it
\* is what drvGetOwnerX returns.
C29_OwnerOnlyBySetOwner ==
  /\ owner = ownerSet
  /\ (last.op = "drvGetOwnerX" => last.ret = ownerSet)

\* Witness of C29: after a successful open under drvLock, drvGetOwnerX
\* returns the owner that was set.
C29_Witness ==
  /\ last.op = "drvGetOwnerX"
  /\ last.ret = "app"
  /\ UIntLess(0, opencnt)
  /\ "drv" \in locks[1]


(***************************************************************************)
(* Channels, streams and condition flags.                                  *)
(***************************************************************************)
\* The operations that return a status or a byte, and those that return
\* the number of bytes transferred.
IsByteOp(op) == Method(op) \in ByteMethods

\* C23: a timed channel operation called with TIME_IMMEDIATE never suspends
\* the caller, and on a channel that is not ready it returns TIMEOUT (a
\* count of zero bytes for the read and write operations).
C23_ImmediateNeverWaits ==
  \A t \in Threads :
    (call[t].op \in TimedOps /\ call[t].time0 = TIME_IMMEDIATE) =>
      /\ pc[t] # "chn_wait"
      /\ ~call[t].suspended
      /\ call[t].end \in { "ok", "timeout" }
      /\ ~call[t].ready0 =>
           /\ call[t].end = "timeout"
           /\ call[t].ret = IF IsByteOp(call[t].op) THEN STM_TIMEOUT ELSE 0

\* A read with TIME_IMMEDIATE found no data and returned zero bytes at once,
\* while another thread is suspended on the same empty queue.
C23_Witness ==
  \E t, u \in Threads :
    /\ call[t].op = "chnReadTimeout"
    /\ call[t].time0 = TIME_IMMEDIATE
    /\ ~call[t].ready0
    /\ call[t].end = "timeout"
    /\ call[t].ret = 0
    /\ pc[t] = "idle"
    /\ pc[u] = "chn_wait"

\* C24: a timed channel operation called with TIME_INFINITE stays blocked
\* until the channel is ready or reset: the clock never runs against it, it
\* never returns TIMEOUT, it returns OK (the byte, the full count) once the
\* transfer is complete, or RESET when the queues are reset under it.
C24_InfiniteNeverTimesOut ==
  \A t \in Threads :
    (call[t].op \in TimedOps /\ call[t].time0 = TIME_INFINITE) =>
      /\ call[t].end \in { "none", "ok", "reset" }
      /\ call[t].end = "none" =>
           /\ pc[t] = "chn_wait"
           /\ ~Expires(call[t])
           /\ call[t].time = TIME_INFINITE
           /\ call[t].done < call[t].n
      /\ call[t].end = "ok" =>
           call[t].ret = IF ~IsByteOp(call[t].op) THEN call[t].n
                         ELSE IF call[t].op = "chnPutTimeout" THEN STM_OK
                         ELSE call[t].ret
      /\ (call[t].end = "ok" /\ call[t].op = "chnGetTimeout") =>
           call[t].ret \in Bytes
      /\ call[t].end = "reset" =>
           /\ clast.op = "reset"
           /\ t \in clast.waiters
           /\ IsByteOp(call[t].op) => call[t].ret = STM_RESET
           /\ ~IsByteOp(call[t].op) => call[t].ret < call[t].n

\* A get with TIME_INFINITE was suspended on the empty queue and returned
\* the byte the receiver delivered later.
C24_Witness ==
  \E t \in Threads :
    /\ call[t].op = "chnGetTimeout"
    /\ call[t].time0 = TIME_INFINITE
    /\ call[t].suspended
    /\ call[t].end = "ok"
    /\ call[t].ret = 255

\* C25: a reset of the channel makes every thread suspended on it return
\* RESET, and a wait on the channel ends in one of three ways only: OK,
\* TIMEOUT or RESET.
C25_ResetWakesAll ==
  /\ clast.op = "reset" =>
       /\ Waiters = { }
       /\ \A t \in clast.waiters :
            /\ pc[t] = "idle"
            /\ call[t].suspended
            /\ call[t].end = "reset"
            /\ IsByteOp(call[t].op) => call[t].ret = STM_RESET
            /\ ~IsByteOp(call[t].op) => call[t].ret < call[t].n
  /\ \A t \in Threads :
       /\ pc[t] = "chn_wait" =>
            /\ call[t].suspended
            /\ call[t].end = "none"
       /\ (mode \in { "input", "output" } /\ pc[t] = "idle"
             /\ call[t].suspended) =>
            /\ call[t].end \in { "ok", "timeout", "reset" }
            /\ call[t].end = "timeout" => call[t].time0 \in 1 .. MaxTicks
            /\ call[t].end = "reset" => clast.op = "reset"

\* Two threads were suspended on the channel when it was reset.
C25_Witness ==
  /\ clast.op = "reset"
  /\ Cardinality(clast.waiters) >= 2
  /\ \E t \in clast.waiters : call[t].ret = STM_RESET

\* C26: chnAddFlagsI adds exactly the given flags to the pending flags of
\* every listener registered on the event source when it is called, and to
\* those of no other listener; a listener that registers later starts with
\* no flag pending.
C26_BroadcastToRegistered ==
  [][ /\ (clast' # clast /\ clast'.op = "addflags") =>
           /\ \A l \in Listeners :
                pending'[l] = IF l \in registered
                                THEN pending[l] \cup clast'.flags
                                ELSE pending[l]
           /\ registered' = registered
      /\ (clast' # clast /\ clast'.op = "register") =>
           /\ pending'[clast'.l] = { }
           /\ registered' = registered \cup { clast'.l }
           /\ \A l \in Listeners \ { clast'.l } : pending'[l] = pending[l]
    ]_vars

\* A listener registered after a broadcast: it has no flag pending, the
\* listener registered before the broadcast has the flags.
C26_Witness ==
  /\ clast.op = "register"
  /\ pending[clast.l] = { }
  /\ \E l \in registered \ { clast.l } :
       pending[l] = { CHN_INPUT_AVAILABLE, CHN_OUTPUT_EMPTY }

\* C27: chnAddFlagsI never blocks and never takes the driver's mutex: it can
\* run to completion in every state, also while a thread holds drvLock, and
\* it leaves the mutex, its holder and the threads queued on it unchanged.
C27_AddFlagsNeverBlocks ==
  /\ [](mode = "events" =>
          \A flags \in FlagMasks : ENABLED ChnAddFlagsI(flags))
  /\ [][ (clast' # clast /\ clast'.op = "addflags") =>
           /\ mutex' = mutex
           /\ locks' = locks
           /\ held' = held
           /\ pc' = pc
       ]_vars

\* A broadcast completed while a thread held drvLock and another thread
\* was queued on the mutex.
C27_Witness ==
  /\ clast.op = "addflags"
  /\ clast.holder # NoThread
  /\ mutex["drv"] = clast.holder
  /\ \E t \in Threads : pc[t] = LockPc("drv") /\ t # clast.holder
  /\ \E l \in registered : clast.flags \subseteq pending[l]

\* C30: streamWrite and streamRead return a count in 0 .. n, fewer than n
\* only when the end of the stream is met; streamPut returns OK or RESET,
\* streamGet a byte or RESET; none of them ever ends by a timeout.
C30_StreamResults ==
  \A t \in Threads :
    call[t].op \in StreamOps =>
      /\ call[t].end \in { "none", "ok", "reset" }
      /\ call[t].end = "none" => ~Expires(call[t])
      /\ (call[t].end # "none" /\ ~IsByteOp(call[t].op)) =>
           /\ call[t].ret \in 0 .. call[t].n
           /\ call[t].ret < call[t].n => call[t].end = "reset"
      /\ (call[t].end # "none" /\ call[t].op = "streamPut") =>
           call[t].ret = IF call[t].end = "ok" THEN STM_OK ELSE STM_RESET
      /\ (call[t].end # "none" /\ call[t].op = "streamGet") =>
           /\ call[t].ret \in Bytes \cup { STM_RESET }
           /\ call[t].ret = STM_RESET <=> call[t].end = "reset"
           /\ call[t].ret # STM_TIMEOUT

\* A streamRead of two bytes got one byte, then the stream ended: it
\* returned one.
C30_Witness ==
  \E t \in Threads :
    /\ call[t].op = "streamRead"
    /\ call[t].n = 2
    /\ call[t].ret = 1
    /\ call[t].end = "reset"

(***************************************************************************)
(* Accessors, the reference-counted close, the two builds compared, the    *)
(* open count and the hardware.                                            *)
(***************************************************************************)
\* The operations that only read the object.
ReadOnlyOps == { "getref", "drvGetStateX", "drvGetOwnerX", "drvGetInterfaceX" }

\* C31: drvSetStateX stores any state value, from any state and whatever
\* the open count; drvGetStateX returns the state as last written; apart
\* from drvSetStateX only drvOpen and drvClose change the state, every other
\* call (drvConfigureX, drvGetInterfaceX, drvSetOwnerX, drvLock, drvUnlock
\* and the rest) leaves it as it was.
C31_StateRawAccessors ==
  /\ last.op = "drvSetStateX" => state = last.arg
  /\ last.op = "drvGetStateX" =>
       /\ last.ret = state
       /\ state = last.pre.state
  /\ last.op \notin { "objinit", "drvSetStateX", "drvOpen", "drvClose" } =>
       state = last.pre.state

\* drvSetStateX put an open driver from ACTIVE back to UNINIT.
C31_Witness ==
  /\ last.op = "drvSetStateX"
  /\ last.pre.state = HAL_DRV_STATE_ACTIVE
  /\ state = HAL_DRV_STATE_UNINIT
  /\ UIntLess(0, opencnt)

\* C32: the read-only accessors (getref, drvGetStateX, drvGetOwnerX,
\* drvGetInterfaceX) leave the reference count, the open count, the state,
\* the owner and the mutex unchanged and invoke neither start nor stop;
\* getref returns the reference count, and the base get-interface returns
\* NULL in every state.
C32_AccessorsReadOnly ==
  [][ (nops' # nops /\ last'.op \in ReadOnlyOps) =>
        /\ UNCHANGED << references, opencnt, state, owner, mutex, vmt,
                        halted, startCalls, stopCalls, disposeCalls >>
        /\ last'.hooks = << >>
        /\ last'.op = "getref" => last'.ret = references
        /\ last'.op = "drvGetInterfaceX" => last'.ret = NULL
    ]_vars

\* drvGetInterfaceX returned NULL on an open driver in state READY whose
\* mutex is held.
C32_Witness ==
  /\ last.op = "drvGetInterfaceX"
  /\ last.ret = NULL
  /\ UIntLess(0, opencnt)
  /\ state = HAL_DRV_STATE_READY
  /\ "drv" \in locks[1]

\* C33: drvClose of the reference-counted driver releases exactly one
\* reference: called with a reference held it takes one from the count,
\* returns the number left, and the object is disposed in that call exactly
\* when the number left is zero; called with no reference left it halts on
\* the assertion of the release and changes nothing.
C33_RefCloseReleasesOne ==
  last.via = "drvClose" =>
    IF halted = Running
      THEN /\ UIntLess(0, last.pre.references)
           /\ references = last.pre.references - 1
           /\ last.ret = references
           /\ last.hooks = IF references = 0 THEN << "dispose" >> ELSE << >>
      ELSE /\ last.pre.references = 0
           /\ references = last.pre.references
           /\ last.hooks = << >>

\* A drvClose left one reference, the next one left none and disposed the
\* driver.
C33_Witness ==
  /\ last.via = "drvClose"
  /\ last.pre.references = 1
  /\ last.ret = 0
  /\ last.hooks = << "dispose" >>
  /\ releases >= 2
  /\ disposeCalls = 1

\* The builds agree on what a client observes of the last call: its
\* return value, the open count after it, the hooks it invoked, whether it
\* halted on an assertion.
Observed(d) ==
  [ ret |-> d.ret, opencnt |-> d.opencnt, hooks |-> d.hooks,
    halt |-> d.halt ]

\* C34: the inline and the out-of-line drvOpen/drvClose are observationally
\* equivalent: after every sequence of calls with every choice of start
\* results, each call returned the same value, left the same open count,
\* invoked the same hooks and halted on the same assertion in both builds.
C34_BuildsEquivalent ==
  Observed(builds["inline"]) = Observed(builds["outofline"])

\* C35: in every build and after every sequence of drvOpen/drvClose calls,
\* the open count is positive exactly when the peripheral is started (the
\* last start succeeded, no stop followed); stop is never invoked on a
\* peripheral that is not started, start never on one that is started.
C35_OpenIffStarted ==
  \A b \in Impls :
    /\ builds[b].halt = Running => (UIntLess(0, builds[b].opencnt) <=> builds[b].hw)
    /\ ~builds[b].stopUnstarted
    /\ ~builds[b].startStarted

\* C36: the open count never wraps: a drvOpen on an open driver leaves the
\* count positive, whatever the number of opens before it, and so start is
\* never invoked again on a started peripheral.
C36_OpenCountNeverWraps ==
  \A b \in Impls :
    /\ (builds[b].op = "drvOpen" /\ UIntLess(0, builds[b].pre)) =>
         UIntLess(0, builds[b].opencnt)
    /\ ~builds[b].startStarted

\* C37: client threads that each repeat drvLock; drvOpen; drvUnlock; ...
\* drvLock; drvClose; drvUnlock on one driver complete every call (none
\* ends in the halt of an assertion), and once all of them have finished
\* the open-count is 0 and start was invoked as often as stop.
C37_ClientsCompleteBalanced ==
  /\ halted = Running
  /\ (\A t \in Threads : Finished(t)) =>
       /\ opencnt = 0
       /\ startCalls = stopCalls

=============================================================================
